---------------------------- MODULE Spec2Model ----------------------------
(***************************************************************************)
(* A model of the ps2 crate: the 8042 controller driver (controller.rs)    *)
(* and the keyboard and mouse protocols layered on it (keyboard.rs,        *)
(* mouse.rs).                                                              *)
(*                                                                         *)
(* The driver is synchronous.  One operation of the public API runs at a   *)
(* time; it is a straight line of register transfers, each preceded by a   *)
(* bounded poll of the status register.  The model executes an operation   *)
(* one register access at a time.  The device is the environment: every    *)
(* status byte and every data byte it returns is a nondeterministic        *)
(* choice.                                                                 *)
(*                                                                         *)
(* Bytes are written in decimal; the hexadecimal value of the source is    *)
(* given in the comment next to each constant.                             *)
(***************************************************************************)
EXTENDS Integers, Sequences, FiniteSets, TLC

(***************************************************************************)
(* Bounds of the model.                                                    *)
(***************************************************************************)
\* Controller::with_timeout is called with a timeout in 0..MaxTimeout.
MaxTimeout == 2

(***************************************************************************)
(* Constants of the source.                                                *)
(***************************************************************************)
\* controller.rs: the two ports.
DATA_REGISTER == 96                 \* 0x60
COMMAND_REGISTER == 100             \* 0x64

\* controller.rs: enum Command.
ReadInternalRam == 32               \* 0x20
WriteInternalRam == 96              \* 0x60
DisableMouse == 167                 \* 0xa7
EnableMouse == 168                  \* 0xa8
TestMouse == 169                    \* 0xa9
TestController == 170               \* 0xaa
TestKeyboard == 171                 \* 0xab
DiagnosticDump == 172               \* 0xac
DisableKeyboard == 173              \* 0xad
EnableKeyboard == 174               \* 0xae
ReadControllerInput == 192          \* 0xc0
WriteLowInputNibbleToStatus == 193  \* 0xc1
WriteHighInputNibbleToStatus == 194 \* 0xc2
ReadControllerOutput == 208         \* 0xd0
WriteControllerOutput == 209        \* 0xd1
WriteKeyboardBuffer == 210          \* 0xd2
WriteMouseBuffer == 211             \* 0xd3
WriteMouse == 212                   \* 0xd4
ReadTestPort == 224                 \* 0xe0
PulseOutput == 240                  \* 0xf0

\* lib.rs: response bytes shared by the keyboard and the mouse.
COMMAND_ACKNOWLEDGED == 250         \* 0xfa
SELF_TEST_PASSED == 170             \* 0xaa
SELF_TEST_FAILED == 252             \* 0xfc
RESEND == 254                       \* 0xfe

\* keyboard.rs: response bytes of the keyboard.
BUFFER_OVERRUN == 0                 \* 0x00
ECHO == 238                         \* 0xee
KEY_DETECTION_ERROR == 255          \* 0xff

\* keyboard.rs: enum Command.
Keyboard_SetLeds == 237                         \* 0xed
Keyboard_Echo == 238                            \* 0xee
Keyboard_GetOrSetScancode == 240                \* 0xf0
Keyboard_IdentifyKeyboard == 242                \* 0xf2
Keyboard_SetTypematicRateAndDelay == 243        \* 0xf3
Keyboard_EnableScanning == 244                  \* 0xf4
Keyboard_DisableScanning == 245                 \* 0xf5
Keyboard_SetDefaults == 246                     \* 0xf6
Keyboard_SetAllKeysTypematic == 247             \* 0xf7
Keyboard_SetAllKeysMakeBreak == 248             \* 0xf8
Keyboard_SetAllKeysMakeOnly == 249              \* 0xf9
Keyboard_SetAllKeysTypematicAndMakeBreak == 250 \* 0xfa
Keyboard_SetKeyTypematic == 251                 \* 0xfb
Keyboard_SetKeyMakeBreak == 252                 \* 0xfc
Keyboard_SetKeyMakeOnly == 253                  \* 0xfd
Keyboard_ResendLastByte == 254                  \* 0xfe
Keyboard_ResetAndSelfTest == 255                \* 0xff

\* mouse.rs: enum Command.
Mouse_SetScaling1To1 == 230         \* 0xe6
Mouse_SetScaling2To1 == 231         \* 0xe7
Mouse_SetResolution == 232          \* 0xe8
Mouse_StatusRequest == 233          \* 0xe9
Mouse_SetStreamMode == 234          \* 0xea
Mouse_ReadData == 235               \* 0xeb
Mouse_ResetWrapMode == 236          \* 0xec
Mouse_SetWrapMode == 238            \* 0xee
Mouse_SetRemoteMode == 240          \* 0xf0
Mouse_GetDeviceID == 242            \* 0xf2
Mouse_SetSampleRate == 243          \* 0xf3
Mouse_EnableDataReporting == 244    \* 0xf4
Mouse_DisableDataReporting == 245   \* 0xf5
Mouse_SetDefaults == 246            \* 0xf6
Mouse_ResendLastPacket == 254       \* 0xfe
Mouse_ResetAndSelfTest == 255       \* 0xff

\* mouse.rs: the tables of valid parameters.
VALID_RESOLUTIONS == <<0, 1, 2, 3>>
\* A table of sample rates that has lost its last element.
VALID_SAMPLE_RATES_short == <<10, 20, 40, 60, 80, 100>>

VALID_SAMPLE_RATES == <<10, 20, 40, 60, 80, 100, 200>>

\* flags.rs: bits of the status register.
OUTPUT_FULL == 1                    \* 0b00000001
INPUT_FULL == 2                     \* 0b00000010

\* flags.rs: the union of the bits each bitfield defines (its all()).
ControllerStatus_all == 255         \* 0b11111111
ControllerConfig_all == 119         \* 0b01110111
ControllerInput_all == 243          \* 0b11110011
ControllerOutput_all == 255         \* 0b11111111
MouseStatus_all == 119              \* 0b01110111
MouseMovement_all == 247            \* 0b11110111
X_SIGN_BIT == 16                    \* 0b00010000
Y_SIGN_BIT == 32                    \* 0b00100000

\* controller.rs: the length of the array diagnostic_dump fills.
DumpLen == 32

(***************************************************************************)
(* Arithmetic on u8 and u16.                                               *)
(***************************************************************************)
RECURSIVE BitAnd(_, _)
\* a & b
BitAnd(a, b) ==
    IF a = 0 \/ b = 0 THEN 0
    ELSE (a % 2) * (b % 2) + 2 * BitAnd(a \div 2, b \div 2)

RECURSIVE BitOr(_, _)
\* a | b
BitOr(a, b) ==
    IF a = 0 THEN b
    ELSE IF b = 0 THEN a
    ELSE (IF a % 2 = 1 \/ b % 2 = 1 THEN 1 ELSE 0) + 2 * BitOr(a \div 2, b \div 2)

\* bitflags: Flags::from_bits_truncate(bits), for the bitfield whose all() is `all`.
from_bits_truncate(bits, all) == BitAnd(bits, all)

\* bitflags: flags.contains(flag).
contains(flags, flag) == BitAnd(flags, flag) = flag

\* Option<u8>::None; Some(x) is x itself.
None == -1

(***************************************************************************)
(* Results.  Ok(v) and Err(e) of every result type of the crate are one    *)
(* record shape: `kind` names the variant (of the value or of the error),  *)
(* `inner` the ControllerError a KeyboardError or MouseError wraps, and    *)
(* `v` the bytes the variant carries.                                      *)
(***************************************************************************)
Ok(kind, v) == [ok |-> TRUE, kind |-> kind, inner |-> "", v |-> v]
Err(kind, v) == [ok |-> FALSE, kind |-> kind, inner |-> "", v |-> v]
\* The result variable while an operation runs.
NoResult == [ok |-> FALSE, kind |-> "running", inner |-> "", v |-> <<>>]

\* error.rs: impl From<ControllerError> for KeyboardError.
KeyboardError_from(e) ==
    [ok |-> FALSE, kind |-> "ControllerError", inner |-> e.kind, v |-> e.v]


\* A conversion that keeps the variant and drops the error it wraps.
MouseError_from_opaque(e) == Err("ControllerError", <<>>)

\* error.rs: impl From<ControllerError> for MouseError.
MouseError_from(e) ==
    [ok |-> FALSE, kind |-> "ControllerError", inner |-> e.kind, v |-> e.v]


(***************************************************************************)
(* The body of a function of the driver is the sequence of register        *)
(* transfers it asks for.  A step is one call of Controller::write_command *)
(* ("cmd": wait_for_write, then a write to the command register), of       *)
(* Controller::write_data ("data": wait_for_write, then a write to the     *)
(* data register) or of Controller::read_data ("read": wait_for_read, then *)
(* a read of the data register).  A read made by check_response carries    *)
(* the name of the protocol whose check_response classifies the byte; the  *)
(* byte of any other read is kept for the function's return value.  The    *)
(* `?` after a step ends the function with the step's error.               *)
(***************************************************************************)
Step(k, byte, check) == [k |-> k, byte |-> byte, check |-> check]

\* ---- controller.rs ----

\* Controller::write_command(command)
write_command(command) == <<Step("cmd", command, "none")>>

\* Controller::read_data()
read_data == <<Step("read", 0, "none")>>

\* Controller::write_data(data)
write_data(data) == <<Step("data", data, "none")>>

\* A read_internal_ram that does not limit the byte number.
read_internal_ram_unmasked(byte_number) ==
    <<Step("cmd", BitOr(ReadInternalRam, byte_number), "none")>> \o read_data

\* Controller::read_internal_ram(byte_number).  The opcode is computed, so the
\* source waits and writes the command register itself instead of calling
\* write_command; the transfer is the same.
read_internal_ram(byte_number) ==
    <<Step("cmd", BitOr(ReadInternalRam, BitAnd(byte_number, 31)), "none")>>
        \o read_data

\* Controller::write_internal_ram(byte_number, data)
write_internal_ram(byte_number, data) ==
    <<Step("cmd", BitOr(WriteInternalRam, BitAnd(byte_number, 31)), "none")>>
        \o write_data(data)

\* Controller::read_config()
read_config == read_internal_ram(0)

\* Controller::write_config(config), config given by its bits.
write_config(config) == write_internal_ram(0, config)

\* Controller::disable_mouse()
disable_mouse == write_command(DisableMouse)

\* Controller::enable_mouse()
enable_mouse == write_command(EnableMouse)

\* Controller::test_mouse()
test_mouse == write_command(TestMouse) \o read_data

\* Controller::test_controller()
test_controller == write_command(TestController) \o read_data

\* Controller::test_keyboard()
test_keyboard == write_command(TestKeyboard) \o read_data

\* Controller::diagnostic_dump(): one read_data per element of the array.
diagnostic_dump ==
    write_command(DiagnosticDump) \o [i \in 1..DumpLen |-> read_data[1]]

\* Controller::disable_keyboard()
disable_keyboard == write_command(DisableKeyboard)

\* Controller::enable_keyboard()
enable_keyboard == write_command(EnableKeyboard)

\* Controller::read_input_port()
read_input_port == write_command(ReadControllerInput) \o read_data

\* Controller::write_input_low_nibble_to_status()
write_input_low_nibble_to_status == write_command(WriteLowInputNibbleToStatus)

\* Controller::write_input_high_nibble_to_status()
write_input_high_nibble_to_status == write_command(WriteHighInputNibbleToStatus)

\* Controller::read_output_port()
read_output_port == write_command(ReadControllerOutput) \o read_data

\* Controller::write_output_port(output), output given by its bits.
write_output_port(output) == write_command(WriteControllerOutput) \o write_data(output)

\* Controller::write_keyboard_buffer(data)
write_keyboard_buffer(data) == write_command(WriteKeyboardBuffer) \o write_data(data)

\* Controller::write_mouse_buffer(data)
write_mouse_buffer(data) == write_command(WriteMouseBuffer) \o write_data(data)


\* A write_mouse that hands over the data byte before the opcode.
write_mouse_data_first(data) == write_data(data) \o write_command(WriteMouse)

\* Controller::write_mouse(data)
write_mouse(data) == write_command(WriteMouse) \o write_data(data)

\* Controller::read_test_port()
read_test_port == write_command(ReadTestPort) \o read_data


\* An opcode that takes the bits of the mask without forcing the high nibble.
pulse_output_low_nibble_raw(data) == <<Step("cmd", data, "none")>>

\* Controller::pulse_output_low_nibble(data)
pulse_output_low_nibble(data) == <<Step("cmd", BitOr(PulseOutput, data), "none")>>

\* ---- keyboard.rs ----

\* A check_response that gives the buffer overrun byte an error of its own.
Keyboard_check_response_overrun(byte) ==
    CASE byte = BUFFER_OVERRUN -> Err("BufferOverrun", <<>>)
      [] byte = COMMAND_ACKNOWLEDGED -> Ok("unit", <<>>)
      [] byte = RESEND -> Err("Resend", <<>>)
      [] byte = KEY_DETECTION_ERROR -> Err("KeyDetectionError", <<>>)
      [] OTHER -> Err("InvalidResponse", <<byte>>)

\* Keyboard::check_response(): the match on the byte read.
Keyboard_check_response(byte) ==
    CASE byte = BUFFER_OVERRUN -> Err("KeyDetectionError", <<>>)
      [] byte = COMMAND_ACKNOWLEDGED -> Ok("unit", <<>>)
      [] byte = RESEND -> Err("Resend", <<>>)
      [] byte = KEY_DETECTION_ERROR -> Err("KeyDetectionError", <<>>)
      [] OTHER -> Err("InvalidResponse", <<byte>>)

\* A write_command that sends both bytes before it reads an answer.
Keyboard_write_command_unchecked(command, data) ==
    write_data(command)
        \o (IF data # None THEN write_data(data) ELSE <<>>)
        \o <<Step("read", 0, "keyboard")>>
        \o (IF data # None THEN <<Step("read", 0, "keyboard")>> ELSE <<>>)

\* Keyboard::write_command(command, data)
Keyboard_write_command(command, data) ==
    write_data(command) \o <<Step("read", 0, "keyboard")>>
        \o (IF data # None
            THEN write_data(data) \o <<Step("read", 0, "keyboard")>>
            ELSE <<>>)

\* Keyboard::set_leds(leds), leds given by its bits.
Keyboard_set_leds(leds) == Keyboard_write_command(Keyboard_SetLeds, leds)

\* Keyboard::echo()
Keyboard_echo == write_data(Keyboard_Echo) \o read_data

\* Keyboard::get_scancode_set()
Keyboard_get_scancode_set ==
    Keyboard_write_command(Keyboard_GetOrSetScancode, 0) \o read_data

\* Keyboard::set_scancode_set(scancode_set)
Keyboard_set_scancode_set(scancode_set) ==
    Keyboard_write_command(Keyboard_GetOrSetScancode, scancode_set)

\* Keyboard::get_keyboard_type()
Keyboard_get_keyboard_type ==
    Keyboard_write_command(Keyboard_IdentifyKeyboard, None) \o read_data \o read_data

\* Keyboard::set_typematic_rate_and_delay(typematic_config)
Keyboard_set_typematic_rate_and_delay(typematic_config) ==
    Keyboard_write_command(Keyboard_SetTypematicRateAndDelay,
                           BitAnd(typematic_config, 127))

\* Keyboard::enable_scanning()
Keyboard_enable_scanning == Keyboard_write_command(Keyboard_EnableScanning, None)

\* Keyboard::disable_scanning()
Keyboard_disable_scanning == Keyboard_write_command(Keyboard_DisableScanning, None)

\* Keyboard::set_defaults()
Keyboard_set_defaults == Keyboard_write_command(Keyboard_SetDefaults, None)

\* Keyboard::set_all_keys_typematic()
Keyboard_set_all_keys_typematic ==
    Keyboard_write_command(Keyboard_SetAllKeysTypematic, None)

\* Keyboard::set_all_keys_make_break()
Keyboard_set_all_keys_make_break ==
    Keyboard_write_command(Keyboard_SetAllKeysMakeBreak, None)

\* Keyboard::set_all_keys_make_only()
Keyboard_set_all_keys_make_only ==
    Keyboard_write_command(Keyboard_SetAllKeysMakeOnly, None)

\* Keyboard::set_all_keys_typematic_make_break()
Keyboard_set_all_keys_typematic_make_break ==
    Keyboard_write_command(Keyboard_SetAllKeysTypematicAndMakeBreak, None)

\* Keyboard::set_key_typematic(scancode)
Keyboard_set_key_typematic(scancode) ==
    Keyboard_write_command(Keyboard_SetKeyTypematic, scancode)

\* Keyboard::set_key_make_break(scancode)
Keyboard_set_key_make_break(scancode) ==
    Keyboard_write_command(Keyboard_SetKeyMakeBreak, scancode)

\* Keyboard::set_key_make_only(scancode)
Keyboard_set_key_make_only(scancode) ==
    Keyboard_write_command(Keyboard_SetKeyMakeOnly, scancode)

\* Keyboard::resend_last_byte()
Keyboard_resend_last_byte == write_data(Keyboard_ResendLastByte) \o read_data

\* Keyboard::reset_and_self_test()
Keyboard_reset_and_self_test ==
    Keyboard_write_command(Keyboard_ResetAndSelfTest, None) \o read_data

\* ---- mouse.rs ----

\* Mouse::check_response(): the match on the byte read.
Mouse_check_response(byte) ==
    CASE byte = COMMAND_ACKNOWLEDGED -> Ok("unit", <<>>)
      [] byte = RESEND -> Err("Resend", <<>>)
      [] OTHER -> Err("InvalidResponse", <<byte>>)

\* Mouse::write_command(command, data): the opcode goes through write_mouse,
\* the parameter through write_data.
Mouse_write_command(command, data) ==
    write_mouse(command) \o <<Step("read", 0, "mouse")>>
        \o (IF data # None
            THEN write_data(data) \o <<Step("read", 0, "mouse")>>
            ELSE <<>>)

\* slice::contains, for the two tables of mouse.rs.
slice_contains(table, x) == \E i \in 1..Len(table) : table[i] = x

\* Iterator::position, 0-based, for an element the table holds.
position(table, x) == (CHOOSE i \in 1..Len(table) : table[i] = x) - 1

\* Mouse::set_scaling_one_to_one()
Mouse_set_scaling_one_to_one == Mouse_write_command(Mouse_SetScaling1To1, None)

\* Mouse::set_scaling_two_to_one()
Mouse_set_scaling_two_to_one == Mouse_write_command(Mouse_SetScaling2To1, None)

\* Mouse::set_resolution(resolution): nothing is sent for a rejected value.
Mouse_set_resolution(resolution) ==
    IF ~slice_contains(VALID_RESOLUTIONS, resolution)
    THEN <<>>
    ELSE Mouse_write_command(Mouse_SetResolution,
                             position(VALID_RESOLUTIONS, resolution))

\* Mouse::get_status_packet()
Mouse_get_status_packet ==
    Mouse_write_command(Mouse_StatusRequest, None)
        \o read_data \o read_data \o read_data

\* Mouse::set_stream_mode()
Mouse_set_stream_mode == Mouse_write_command(Mouse_SetStreamMode, None)


\* A read_data_packet that asks the mouse for the packet it reads.
Mouse_read_data_packet_asking ==
    Mouse_write_command(Mouse_ReadData, None)
        \o read_data \o read_data \o read_data

\* Mouse::read_data_packet()
Mouse_read_data_packet == read_data \o read_data \o read_data

\* Mouse::request_data_packet()
Mouse_request_data_packet ==
    Mouse_write_command(Mouse_ReadData, None) \o Mouse_read_data_packet

\* Mouse::reset_wrap_mode()
Mouse_reset_wrap_mode == Mouse_write_command(Mouse_ResetWrapMode, None)

\* Mouse::set_wrap_mode()
Mouse_set_wrap_mode == Mouse_write_command(Mouse_SetWrapMode, None)

\* Mouse::set_remote_mode()
Mouse_set_remote_mode == Mouse_write_command(Mouse_SetRemoteMode, None)

\* Mouse::get_mouse_type()
Mouse_get_mouse_type == Mouse_write_command(Mouse_GetDeviceID, None) \o read_data

\* A set_sample_rate that sends the rate before it is validated.
Mouse_set_sample_rate_eager(sample_rate) ==
    Mouse_write_command(Mouse_SetSampleRate, sample_rate)

\* Mouse::set_sample_rate(sample_rate): nothing is sent for a rejected value.
Mouse_set_sample_rate(sample_rate) ==
    IF ~slice_contains(VALID_SAMPLE_RATES, sample_rate)
    THEN <<>>
    ELSE Mouse_write_command(Mouse_SetSampleRate, sample_rate)

\* Mouse::enable_data_reporting()
Mouse_enable_data_reporting == Mouse_write_command(Mouse_EnableDataReporting, None)

\* Mouse::disable_data_reporting()
Mouse_disable_data_reporting == Mouse_write_command(Mouse_DisableDataReporting, None)

\* Mouse::set_defaults()
Mouse_set_defaults == Mouse_write_command(Mouse_SetDefaults, None)

\* Mouse::resend_last_packet()
Mouse_resend_last_packet == write_mouse(Mouse_ResendLastPacket)


\* A reset_and_self_test that leaves the device id in the buffer.
Mouse_reset_and_self_test_no_id ==
    Mouse_write_command(Mouse_ResetAndSelfTest, None) \o read_data

\* Mouse::reset_and_self_test(): the result byte, then the device id.
Mouse_reset_and_self_test ==
    Mouse_write_command(Mouse_ResetAndSelfTest, None) \o read_data \o read_data

(***************************************************************************)
(* Return values: what each function returns once all its steps have       *)
(* succeeded, from the bytes `got` its plain reads returned, in order.     *)
(***************************************************************************)
\* Controller::read_data(): Ok(byte).
read_data_ret(got) == Ok("u8", <<got[1]>>)

\* A read_config that keeps the bits Config does not define.
read_config_ret_retain(got) == Ok("ControllerConfigFlags", <<got[1]>>)

\* Controller::read_config(): the byte truncated to the bits Config defines.
read_config_ret(got) ==
    Ok("ControllerConfigFlags", <<from_bits_truncate(got[1], ControllerConfig_all)>>)

\* Controller::test_mouse(): the match on the response.
test_mouse_ret(got) ==
    IF got[1] = 0 THEN Ok("unit", <<>>) ELSE Err("TestFailed", <<got[1]>>)

\* A test_controller that takes the keyboard's self-test byte for its own.
test_controller_ret_0xaa(got) ==
    IF got[1] = 170 THEN Ok("unit", <<>>) ELSE Err("TestFailed", <<got[1]>>)

\* Controller::test_controller(): the match on the response (0x55).
test_controller_ret(got) ==
    IF got[1] = 85 THEN Ok("unit", <<>>) ELSE Err("TestFailed", <<got[1]>>)

\* Controller::test_keyboard(): the match on the response.
test_keyboard_ret(got) ==
    IF got[1] = 0 THEN Ok("unit", <<>>) ELSE Err("TestFailed", <<got[1]>>)


\* A dump that fills the array from its last element.
diagnostic_dump_ret_reversed(got) ==
    Ok("bytes", [i \in 1..Len(got) |-> got[Len(got) + 1 - i]])

\* Controller::diagnostic_dump(): the array, in the order read.
diagnostic_dump_ret(got) == Ok("bytes", got)

\* Controller::read_input_port()
read_input_port_ret(got) ==
    Ok("InputPortFlags", <<from_bits_truncate(got[1], ControllerInput_all)>>)

\* Controller::read_output_port()
read_output_port_ret(got) ==
    Ok("OutputPortFlags", <<from_bits_truncate(got[1], ControllerOutput_all)>>)

\* Controller::read_test_port().  flags.rs defines no test-port bitfield, so
\* the bits are kept as read.
read_test_port_ret(got) == Ok("TestPortFlags", <<got[1]>>)

\* Keyboard::echo(): the match on the byte read.
Keyboard_echo_ret(got) ==
    CASE got[1] = ECHO -> Ok("unit", <<>>)
      [] got[1] = RESEND -> Err("Resend", <<>>)
      [] OTHER -> Err("InvalidResponse", <<got[1]>>)

\* A table whose last arm takes every other pair that starts with 0xab for
\* an MF2 keyboard.
KeyboardType_from_prefix(first, second) ==
    CASE first = 171 /\ second = 131 -> Ok("MF2", <<>>)
      [] first = 171 /\ second \in {65, 193} -> Ok("MF2WithTranslation", <<>>)
      [] first = 171 /\ second = 132 -> Ok("ThinkPad", <<>>)
      [] first = 171 /\ second = 84 -> Ok("ThinkPadWithTranslation", <<>>)
      [] first = 171 /\ second = 134 -> Ok("Unknown122Key", <<>>)
      [] first = 191 /\ second = 191 -> Ok("IBM1390876", <<>>)
      [] first = 171 /\ second = 133 -> Ok("NetworkComputingDevicesN97", <<>>)
      [] first = 172 /\ second = 161 -> Ok("NetworkComputingDevicesSunLayout", <<>>)
      [] first = 171 /\ second = 144 -> Ok("OldJapaneseG", <<>>)
      [] first = 171 /\ second = 145 -> Ok("OldJapaneseP", <<>>)
      [] first = 171 /\ second = 146 -> Ok("OldJapaneseA", <<>>)
      [] first = 171 -> Ok("MF2", <<>>)
      [] OTHER -> Ok("Unknown", <<first, second>>)

\* keyboard_type.rs: impl From<(u8, u8)> for KeyboardType.
KeyboardType_from(first, second) ==
    CASE first = 171 /\ second = 131 -> Ok("MF2", <<>>)
      [] first = 171 /\ second \in {65, 193} -> Ok("MF2WithTranslation", <<>>)
      [] first = 171 /\ second = 132 -> Ok("ThinkPad", <<>>)
      [] first = 171 /\ second = 84 -> Ok("ThinkPadWithTranslation", <<>>)
      [] first = 171 /\ second = 134 -> Ok("Unknown122Key", <<>>)
      [] first = 191 /\ second = 191 -> Ok("IBM1390876", <<>>)
      [] first = 171 /\ second = 133 -> Ok("NetworkComputingDevicesN97", <<>>)
      [] first = 172 /\ second = 161 -> Ok("NetworkComputingDevicesSunLayout", <<>>)
      [] first = 171 /\ second = 144 -> Ok("OldJapaneseG", <<>>)
      [] first = 171 /\ second = 145 -> Ok("OldJapaneseP", <<>>)
      [] first = 171 /\ second = 146 -> Ok("OldJapaneseA", <<>>)
      [] OTHER -> Ok("Unknown", <<first, second>>)

\* A get_keyboard_type that returns every error of write_command.
Keyboard_get_keyboard_type_no_xt(r) == r

\* Keyboard::get_keyboard_type(): the match on the result of write_command.
Keyboard_get_keyboard_type_handshake(r) ==
    IF r.kind = "Resend" /\ r.inner = "" THEN Ok("XT", <<>>) ELSE r

\* A get_keyboard_type that returns the timeout of the first identification
\* byte as an error.
Keyboard_get_keyboard_type_first_err(e) == KeyboardError_from(e)

\* Keyboard::get_keyboard_type(): the Err arms of the match on the first
\* identification byte's read_data.
Keyboard_get_keyboard_type_first(e) ==
    IF e.kind = "Timeout" THEN Ok("ATWithTranslation", <<>>)
    ELSE KeyboardError_from(e)

\* Keyboard::get_keyboard_type(): both identification bytes read.
Keyboard_get_keyboard_type_ret(got) == KeyboardType_from(got[1], got[2])


\* A get_scancode_set that takes the set number for a handshake byte.
Keyboard_get_scancode_set_ret_checked(got) ==
    IF got[1] \in {BUFFER_OVERRUN, RESEND, KEY_DETECTION_ERROR}
    THEN Keyboard_check_response(got[1])
    ELSE Ok("u8", <<got[1]>>)

\* Keyboard::get_scancode_set(): Ok(byte).
Keyboard_get_scancode_set_ret(got) == Ok("u8", <<got[1]>>)

\* Keyboard::resend_last_byte(): the match on the byte read.
Keyboard_resend_last_byte_ret(got) ==
    IF got[1] = RESEND THEN Err("Resend", <<>>) ELSE Ok("u8", <<got[1]>>)


\* A match without the arm of the failed self-test.
Keyboard_reset_and_self_test_ret_no_fail(got) ==
    CASE got[1] = SELF_TEST_PASSED -> Ok("unit", <<>>)
      [] got[1] = RESEND -> Err("Resend", <<>>)
      [] OTHER -> Err("InvalidResponse", <<got[1]>>)

\* Keyboard::reset_and_self_test(): the match on the byte read.
Keyboard_reset_and_self_test_ret(got) ==
    CASE got[1] = SELF_TEST_PASSED -> Ok("unit", <<>>)
      [] got[1] = SELF_TEST_FAILED -> Err("SelfTestFailed", <<>>)
      [] got[1] = RESEND -> Err("Resend", <<>>)
      [] OTHER -> Err("InvalidResponse", <<got[1]>>)

\* Mouse::set_resolution(resolution): Err for a rejected value.
Mouse_set_resolution_ret(resolution) ==
    IF ~slice_contains(VALID_RESOLUTIONS, resolution)
    THEN Err("InvalidResolution", <<resolution>>)
    ELSE Ok("unit", <<>>)

\* Mouse::set_sample_rate(sample_rate): Err for a rejected value.
Mouse_set_sample_rate_ret(sample_rate) ==
    IF ~slice_contains(VALID_SAMPLE_RATES, sample_rate)
    THEN Err("InvalidSampleRate", <<sample_rate>>)
    ELSE Ok("unit", <<>>)

\* A validation that looks at the sample rate before the resolution.
Mouse_get_status_packet_ret_rate_first(got) ==
    LET status == from_bits_truncate(got[1], MouseStatus_all)
        resolution == got[2]
        sample_rate == got[3]
    IN  IF ~slice_contains(VALID_SAMPLE_RATES, sample_rate)
        THEN Err("InvalidSampleRate", <<sample_rate>>)
        ELSE IF ~slice_contains(VALID_RESOLUTIONS, resolution)
        THEN Err("InvalidResolution", <<resolution>>)
        ELSE Ok("status_packet", <<status, resolution, sample_rate>>)

\* Mouse::get_status_packet(): the two checks after the three reads.
Mouse_get_status_packet_ret(got) ==
    LET status == from_bits_truncate(got[1], MouseStatus_all)
        resolution == got[2]
        sample_rate == got[3]
    IN  IF ~slice_contains(VALID_RESOLUTIONS, resolution)
        THEN Err("InvalidResolution", <<resolution>>)
        ELSE IF ~slice_contains(VALID_SAMPLE_RATES, sample_rate)
        THEN Err("InvalidSampleRate", <<sample_rate>>)
        ELSE Ok("status_packet", <<status, resolution, sample_rate>>)

\* u16 as i16
as_i16(u) == IF u >= 32768 THEN u - 65536 ELSE u

\* A decoding that extends both movements under the X sign bit.
Mouse_read_data_packet_ret_x_sign(got) ==
    LET movement_flags == from_bits_truncate(got[1], MouseMovement_all)
        x_movement == IF contains(movement_flags, X_SIGN_BIT)
                      THEN BitOr(got[2], 65280) ELSE got[2]
        y_movement == IF contains(movement_flags, X_SIGN_BIT)
                      THEN BitOr(got[3], 65280) ELSE got[3]
    IN  Ok("movement_packet",
           <<movement_flags, as_i16(x_movement), as_i16(y_movement)>>)

\* Mouse::read_data_packet(): the sign extension of the two movement bytes.
Mouse_read_data_packet_ret(got) ==
    LET movement_flags == from_bits_truncate(got[1], MouseMovement_all)
        x_movement == IF contains(movement_flags, X_SIGN_BIT)
                      THEN BitOr(got[2], 65280) ELSE got[2]
        y_movement == IF contains(movement_flags, Y_SIGN_BIT)
                      THEN BitOr(got[3], 65280) ELSE got[3]
    IN  Ok("movement_packet",
           <<movement_flags, as_i16(x_movement), as_i16(y_movement)>>)

\* mouse_type.rs: impl From<u8> for MouseType.
MouseType_from(value) ==
    CASE value = 0 -> Ok("Standard", <<>>)
      [] value = 3 -> Ok("IntelliMouse", <<>>)
      [] value = 4 -> Ok("IntelliMouseExplorer", <<>>)
      [] value = 8 -> Ok("Typhoon", <<>>)
      [] OTHER -> Ok("Unknown", <<value>>)

\* Mouse::get_mouse_type()
Mouse_get_mouse_type_ret(got) == MouseType_from(got[1])

\* Mouse::reset_and_self_test(): the match on the result byte, returned once
\* the device id has been read too.
Mouse_reset_and_self_test_ret(got) ==
    CASE got[1] = SELF_TEST_PASSED -> Ok("unit", <<>>)
      [] got[1] = SELF_TEST_FAILED -> Err("SelfTestFailed", <<>>)
      [] got[1] = RESEND -> Err("Resend", <<>>)
      [] OTHER -> Err("InvalidResponse", <<got[1]>>)

(***************************************************************************)
(* The operations of the public API and the inputs they are called with.   *)
(* An operation is [dev, name, a, b]: the object it is a method of, its    *)
(* name and its arguments (0 where it has none).                           *)
(***************************************************************************)
\* The bytes operations are called with.
ArgBytes == {0, 1, 3, 5, 33, 100, 200, 255}

\* The bytes a device answers where the driver reads a handshake byte.
HandshakeBytes == {0, 85, 170, 250, 252, 254, 255}

\* The bytes a device answers where the driver reads a data byte.
DataBytes == {0, 1, 3, 16, 85, 100, 131, 170, 171, 238, 250, 252, 254, 255}

\* The bytes a mouse answers where the driver reads a byte of a packet.
PacketBytes == {0, 1, 16, 32, 100, 255}

\* The bytes a keyboard answers where the driver reads an identification
\* byte: the bytes of the identification table, and two it does not hold.
IdBytes == {0, 65, 84, 131, 132, 133, 134, 144, 145, 146, 161, 171, 172, 191,
            193, 250}

\* The bytes a mouse answers where the driver reads its device id: the four
\* ids of the table of mouse_type.rs, and bytes it does not hold.
MouseTypeBytes == {0, 1, 3, 4, 8, 250, 254, 255}

\* The bytes RAM byte 0 is read with: the Configs write_config is called
\* with, and bytes with bit 3 or bit 7, which Config does not define.
ConfigBytes == {0, 1, 3, 5, 8, 33, 64, 100, 119, 128, 255}

\* The values the status register is read with.
StatusBytes == {0, 2, 3, 29}

Op(dev, name, a, b) == [dev |-> dev, name |-> name, a |-> a, b |-> b]

ControllerOps ==
    {Op("controller", n, 0, 0) :
        n \in {"read_data", "read_config", "disable_mouse", "enable_mouse",
               "test_mouse", "test_controller", "test_keyboard",
               "diagnostic_dump", "disable_keyboard", "enable_keyboard",
               "read_input_port", "write_input_low_nibble_to_status",
               "write_input_high_nibble_to_status", "read_output_port",
               "read_test_port"}}
    \cup {Op("controller", n, a, 0) :
        n \in {"write_data", "read_internal_ram", "write_output_port",
               "write_keyboard_buffer", "write_mouse_buffer", "write_mouse",
               "pulse_output_low_nibble"},
        a \in ArgBytes}
    \cup {Op("controller", "write_config",
             from_bits_truncate(a, ControllerConfig_all), 0) : a \in ArgBytes}
    \cup {Op("controller", "write_internal_ram", a, b) :
        a \in {0, 1, 31, 33, 255}, b \in {0, 100, 255}}

KeyboardOps ==
    {Op("keyboard", n, 0, 0) :
        n \in {"Keyboard::echo", "Keyboard::get_scancode_set",
               "Keyboard::get_keyboard_type", "Keyboard::enable_scanning",
               "Keyboard::disable_scanning", "Keyboard::set_defaults",
               "Keyboard::set_all_keys_typematic",
               "Keyboard::set_all_keys_make_break",
               "Keyboard::set_all_keys_make_only",
               "Keyboard::set_all_keys_typematic_make_break",
               "Keyboard::resend_last_byte", "Keyboard::reset_and_self_test"}}
    \cup {Op("keyboard", n, a, 0) :
        n \in {"Keyboard::set_scancode_set",
               "Keyboard::set_key_typematic", "Keyboard::set_key_make_break",
               "Keyboard::set_key_make_only"},
        a \in ArgBytes}
    \cup {Op("keyboard", "Keyboard::set_typematic_rate_and_delay", a, 0) :
        a \in ArgBytes \cup {2, 30, 127}}
    \cup {Op("keyboard", "Keyboard::set_leds", a, 0) : a \in 0..7}

MouseOps ==
    {Op("mouse", n, 0, 0) :
        n \in {"Mouse::set_scaling_one_to_one", "Mouse::set_scaling_two_to_one",
               "Mouse::get_status_packet", "Mouse::set_stream_mode",
               "Mouse::request_data_packet", "Mouse::read_data_packet",
               "Mouse::reset_wrap_mode", "Mouse::set_wrap_mode",
               "Mouse::set_remote_mode", "Mouse::get_mouse_type",
               "Mouse::enable_data_reporting", "Mouse::disable_data_reporting",
               "Mouse::set_defaults", "Mouse::resend_last_packet",
               "Mouse::reset_and_self_test"}}
    \cup {Op("mouse", n, a, 0) :
        n \in {"Mouse::set_resolution", "Mouse::set_sample_rate"},
        a \in ArgBytes \cup {2, 4, 8, 10, 15, 20, 40, 60, 80}}

\* The steps of operation o.
Body(o) ==
    CASE o.name = "read_data" -> read_data
      [] o.name = "write_data" -> write_data(o.a)
      [] o.name = "read_internal_ram" -> read_internal_ram(o.a)
      [] o.name = "write_internal_ram" -> write_internal_ram(o.a, o.b)
      [] o.name = "read_config" -> read_config
      [] o.name = "write_config" -> write_config(o.a)
      [] o.name = "disable_mouse" -> disable_mouse
      [] o.name = "enable_mouse" -> enable_mouse
      [] o.name = "test_mouse" -> test_mouse
      [] o.name = "test_controller" -> test_controller
      [] o.name = "test_keyboard" -> test_keyboard
      [] o.name = "diagnostic_dump" -> diagnostic_dump
      [] o.name = "disable_keyboard" -> disable_keyboard
      [] o.name = "enable_keyboard" -> enable_keyboard
      [] o.name = "read_input_port" -> read_input_port
      [] o.name = "write_input_low_nibble_to_status" ->
            write_input_low_nibble_to_status
      [] o.name = "write_input_high_nibble_to_status" ->
            write_input_high_nibble_to_status
      [] o.name = "read_output_port" -> read_output_port
      [] o.name = "write_output_port" -> write_output_port(o.a)
      [] o.name = "write_keyboard_buffer" -> write_keyboard_buffer(o.a)
      [] o.name = "write_mouse_buffer" -> write_mouse_buffer(o.a)
      [] o.name = "write_mouse" -> write_mouse(o.a)
      [] o.name = "read_test_port" -> read_test_port
      [] o.name = "pulse_output_low_nibble" -> pulse_output_low_nibble(o.a)
      [] o.name = "Keyboard::set_leds" -> Keyboard_set_leds(o.a)
      [] o.name = "Keyboard::echo" -> Keyboard_echo
      [] o.name = "Keyboard::get_scancode_set" -> Keyboard_get_scancode_set
      [] o.name = "Keyboard::set_scancode_set" -> Keyboard_set_scancode_set(o.a)
      [] o.name = "Keyboard::get_keyboard_type" -> Keyboard_get_keyboard_type
      [] o.name = "Keyboard::set_typematic_rate_and_delay" ->
            Keyboard_set_typematic_rate_and_delay(o.a)
      [] o.name = "Keyboard::enable_scanning" -> Keyboard_enable_scanning
      [] o.name = "Keyboard::disable_scanning" -> Keyboard_disable_scanning
      [] o.name = "Keyboard::set_defaults" -> Keyboard_set_defaults
      [] o.name = "Keyboard::set_all_keys_typematic" ->
            Keyboard_set_all_keys_typematic
      [] o.name = "Keyboard::set_all_keys_make_break" ->
            Keyboard_set_all_keys_make_break
      [] o.name = "Keyboard::set_all_keys_make_only" ->
            Keyboard_set_all_keys_make_only
      [] o.name = "Keyboard::set_all_keys_typematic_make_break" ->
            Keyboard_set_all_keys_typematic_make_break
      [] o.name = "Keyboard::set_key_typematic" -> Keyboard_set_key_typematic(o.a)
      [] o.name = "Keyboard::set_key_make_break" -> Keyboard_set_key_make_break(o.a)
      [] o.name = "Keyboard::set_key_make_only" -> Keyboard_set_key_make_only(o.a)
      [] o.name = "Keyboard::resend_last_byte" -> Keyboard_resend_last_byte
      [] o.name = "Keyboard::reset_and_self_test" -> Keyboard_reset_and_self_test
      [] o.name = "Mouse::set_scaling_one_to_one" -> Mouse_set_scaling_one_to_one
      [] o.name = "Mouse::set_scaling_two_to_one" -> Mouse_set_scaling_two_to_one
      [] o.name = "Mouse::set_resolution" -> Mouse_set_resolution(o.a)
      [] o.name = "Mouse::get_status_packet" -> Mouse_get_status_packet
      [] o.name = "Mouse::set_stream_mode" -> Mouse_set_stream_mode
      [] o.name = "Mouse::request_data_packet" -> Mouse_request_data_packet
      [] o.name = "Mouse::read_data_packet" -> Mouse_read_data_packet
      [] o.name = "Mouse::reset_wrap_mode" -> Mouse_reset_wrap_mode
      [] o.name = "Mouse::set_wrap_mode" -> Mouse_set_wrap_mode
      [] o.name = "Mouse::set_remote_mode" -> Mouse_set_remote_mode
      [] o.name = "Mouse::get_mouse_type" -> Mouse_get_mouse_type
      [] o.name = "Mouse::set_sample_rate" -> Mouse_set_sample_rate(o.a)
      [] o.name = "Mouse::enable_data_reporting" -> Mouse_enable_data_reporting
      [] o.name = "Mouse::disable_data_reporting" -> Mouse_disable_data_reporting
      [] o.name = "Mouse::set_defaults" -> Mouse_set_defaults
      [] o.name = "Mouse::resend_last_packet" -> Mouse_resend_last_packet
      [] o.name = "Mouse::reset_and_self_test" -> Mouse_reset_and_self_test
      [] OTHER -> <<>>

\* The operations the model calls, and the steps of each.
AllOps == ControllerOps \cup KeyboardOps \cup MouseOps
Bodies == [o \in AllOps |-> Body(o)]

\* What operation o returns when every step of Body(o) has succeeded.
Ret(o, got) ==
    CASE o.name \in {"read_data", "read_internal_ram"} -> read_data_ret(got)
      [] o.name = "read_config" -> read_config_ret(got)
      [] o.name = "test_mouse" -> test_mouse_ret(got)
      [] o.name = "test_controller" -> test_controller_ret(got)
      [] o.name = "test_keyboard" -> test_keyboard_ret(got)
      [] o.name = "diagnostic_dump" -> diagnostic_dump_ret(got)
      [] o.name = "read_input_port" -> read_input_port_ret(got)
      [] o.name = "read_output_port" -> read_output_port_ret(got)
      [] o.name = "read_test_port" -> read_test_port_ret(got)
      [] o.name = "Keyboard::echo" -> Keyboard_echo_ret(got)
      [] o.name = "Keyboard::get_scancode_set" -> Keyboard_get_scancode_set_ret(got)
      [] o.name = "Keyboard::get_keyboard_type" ->
            Keyboard_get_keyboard_type_ret(got)
      [] o.name = "Keyboard::resend_last_byte" -> Keyboard_resend_last_byte_ret(got)
      [] o.name = "Keyboard::reset_and_self_test" ->
            Keyboard_reset_and_self_test_ret(got)
      [] o.name = "Mouse::set_resolution" -> Mouse_set_resolution_ret(o.a)
      [] o.name = "Mouse::set_sample_rate" -> Mouse_set_sample_rate_ret(o.a)
      [] o.name = "Mouse::get_status_packet" -> Mouse_get_status_packet_ret(got)
      [] o.name \in {"Mouse::read_data_packet", "Mouse::request_data_packet"} ->
            Mouse_read_data_packet_ret(got)
      [] o.name = "Mouse::get_mouse_type" -> Mouse_get_mouse_type_ret(got)
      [] o.name = "Mouse::reset_and_self_test" ->
            Mouse_reset_and_self_test_ret(got)
      [] OTHER -> Ok("unit", <<>>)


\* A get_keyboard_type that takes the timeout of either identification byte
\* for an AT keyboard.
OnControllerError_both_reads(o, i, e) ==
    CASE o.dev = "controller" -> e
      [] o.dev = "keyboard" ->
            IF o.name = "Keyboard::get_keyboard_type" /\ i >= 3
            THEN Keyboard_get_keyboard_type_first(e)
            ELSE KeyboardError_from(e)
      [] o.dev = "mouse" -> MouseError_from(e)


\* A mouse reset that does not propagate the error of the device id read.
OnControllerError_id_ignored(o, i, e) ==
    CASE o.dev = "controller" -> e
      [] o.dev = "keyboard" ->
            IF o.name = "Keyboard::get_keyboard_type" /\ i = 3
            THEN Keyboard_get_keyboard_type_first(e)
            ELSE KeyboardError_from(e)
      [] o.dev = "mouse" ->
            IF o.name = "Mouse::reset_and_self_test" /\ i = 5
            THEN Ok("unit", <<>>)
            ELSE MouseError_from(e)

\* What operation o returns when its step i fails with ControllerError e:
\* the `?` of a Keyboard or Mouse function converts the error with From;
\* get_keyboard_type matches on the read of the first identification byte
\* (step 3) itself.
OnControllerError(o, i, e) ==
    CASE o.dev = "controller" -> e
      [] o.dev = "keyboard" ->
            IF o.name = "Keyboard::get_keyboard_type" /\ i = 3
            THEN Keyboard_get_keyboard_type_first(e)
            ELSE KeyboardError_from(e)
      [] o.dev = "mouse" -> MouseError_from(e)

\* What operation o returns when check_response returns the error r.
OnCheckError(o, r) ==
    IF o.name = "Keyboard::get_keyboard_type"
    THEN Keyboard_get_keyboard_type_handshake(r)
    ELSE r

\* The bytes the device may answer to the read at step i of operation o.
\* diagnostic_dump reads DumpLen bytes: the device answers the number of the
\* RAM byte, or 0xff for the first.
DeviceData(o, i) ==
    IF o.name = "diagnostic_dump"
    THEN {i - 2} \cup (IF i = 2 THEN {255} ELSE {})
    ELSE IF Bodies[o][i].check # "none" THEN HandshakeBytes
    ELSE IF o.name = "Keyboard::get_keyboard_type" THEN IdBytes
    ELSE IF o.name = "read_config" THEN ConfigBytes
    ELSE IF o.name = "Mouse::get_mouse_type" THEN MouseTypeBytes
    ELSE IF o.name \in {"Mouse::get_status_packet", "Mouse::read_data_packet",
                        "Mouse::request_data_packet"}
    THEN PacketBytes
    ELSE DataBytes

(***************************************************************************)
(* The state.                                                              *)
(***************************************************************************)
VARIABLES
    timeout,    \* Controller.timeout
    handles,    \* the Keyboard and Mouse handles that borrow the Controller
    op,         \* the operation called last
    pc,         \* "idle" when no operation is in progress; "wait" in
                \* wait_for_read or wait_for_write of step ip; "xfer" between
                \* the wait and the transfer of step ip; "done" when the
                \* operation returns `result`
    ip,         \* the step of Bodies[op] being executed
    cycles,     \* the local `cycles` of the wait in progress
    polls,      \* status reads made by the wait of step ip
    wait_result, \* what the wait of step ip returned: "Ok", "Timeout", or ""
    got,        \* the bytes the plain reads of the operation returned
    trace,      \* the transfers the operation made on the two registers
    nstatus,    \* status reads made by the operation
    last,       \* the last register access of the operation
    result,     \* what the operation returned
    config_written \* the Config the write_config before this operation
                \* wrote, None when the operation before was another, or
                \* when it is not read_config that runs now

vars == <<timeout, handles, op, pc, ip, cycles, polls, wait_result, got,
          trace, nstatus, last, result, config_written>>

\* One access of a port: the port, "r" or "w", and the byte moved.
Access(reg, dir, byte) == [reg |-> reg, dir |-> dir, byte |-> byte]
NoAccess == [reg |-> 0, dir |-> "", byte |-> 0]

Running == pc \in {"wait", "xfer"}
Cur == Bodies[op][ip]

\* Controller::with_timeout(timeout): no handle is borrowed, nothing has run.
Init ==
    /\ timeout \in 0..MaxTimeout
    /\ handles = {}
    /\ op = Op("controller", "none", 0, 0)
    /\ pc = "idle"
    /\ ip = 0
    /\ cycles = 0
    /\ polls = 0
    /\ wait_result = ""
    /\ got = <<>>
    /\ trace = <<>>
    /\ nstatus = 0
    /\ last = NoAccess
    /\ result = NoResult
    /\ config_written = None

\* Controller::keyboard(&mut self): the handle borrows the controller
\* mutably, which the compiler grants only while nothing else borrows it.
keyboard ==
    /\ pc = "idle"
    /\ handles = {}
    /\ handles' = {"keyboard"}
    /\ UNCHANGED <<timeout, op, pc, ip, cycles, polls, wait_result, got, trace,
                   nstatus, last, result, config_written>>

\* Controller::mouse(&mut self)
mouse ==
    /\ pc = "idle"
    /\ handles = {}
    /\ handles' = {"mouse"}
    /\ UNCHANGED <<timeout, op, pc, ip, cycles, polls, wait_result, got, trace,
                   nstatus, last, result, config_written>>

\* The handle goes out of scope: the borrow of Keyboard<'c> / Mouse<'c> ends.
\* A method of the handle borrows the handle while it runs.
drop ==
    /\ pc = "idle"
    /\ handles # {}
    /\ handles' = {}
    /\ UNCHANGED <<timeout, op, pc, ip, cycles, polls, wait_result, got, trace,
                   nstatus, last, result, config_written>>

\* The object a call of o needs: the controller itself is reachable only
\* while no handle borrows it.
Callable(o) ==
    CASE o.dev = "controller" -> handles = {}
      [] o.dev = "keyboard" -> "keyboard" \in handles
      [] o.dev = "mouse" -> "mouse" \in handles

\* A call of an operation: it returns at once when it asks for no transfer,
\* otherwise it enters the wait of its first step.
Call ==
    /\ pc = "idle"
    /\ \E o \in AllOps :
        /\ Callable(o)
        /\ op' = o
        /\ config_written' =
                IF o.name = "read_config" THEN config_written ELSE None
        /\ IF Bodies[o] = <<>>
           THEN pc' = "done" /\ result' = Ret(o, <<>>)
           ELSE pc' = "wait" /\ result' = NoResult
    /\ ip' = 1
    /\ cycles' = 0
    /\ polls' = 0
    /\ wait_result' = ""
    /\ got' = <<>>
    /\ trace' = <<>>
    /\ nstatus' = 0
    /\ last' = NoAccess
    /\ UNCHANGED <<timeout, handles>>

\* Controller::read_status(): the flags for the byte the port returns.
read_status(st) == from_bits_truncate(st, ControllerStatus_all)

\* A call of Controller::read_status(): one read of the status register.
call_read_status ==
    /\ pc = "idle"
    /\ handles = {}
    /\ \E st \in StatusBytes :
        /\ last' = Access(COMMAND_REGISTER, "r", st)
        /\ result' = Ok("ControllerStatusFlags", <<read_status(st)>>)
    /\ op' = Op("controller", "read_status", 0, 0)
    /\ pc' = "done"
    /\ ip' = 1
    /\ cycles' = 0
    /\ polls' = 0
    /\ wait_result' = ""
    /\ got' = <<>>
    /\ trace' = <<>>
    /\ nstatus' = 1
    /\ config_written' = None
    /\ UNCHANGED <<timeout, handles>>

\* wait_for_read: the condition that ends the loop with Ok.
read_ready(status) == contains(status, OUTPUT_FULL)

\* A wait_for_write that tests the wrong bit of the status.
write_ready_output_bit(status) == ~contains(status, OUTPUT_FULL)

\* wait_for_write: the condition that ends the loop with Ok.
write_ready(status) == ~contains(status, INPUT_FULL)

\* A loop that makes one turn more than the bound.
loop_condition_inclusive == cycles <= timeout


\* A loop that tests its bound after the first turn only.
loop_condition_do_while == cycles = 0 \/ cycles < timeout

\* The loop condition of wait_for_read and wait_for_write.
loop_condition == cycles < timeout

\* The operation returns r.
Return(r) ==
    /\ pc' = "done"
    /\ result' = r

\* A loop that forgets to count its turns.
next_cycles_stuck == cycles

\* cycles += 1
next_cycles == cycles + 1

\* One turn of the loop of wait_for_read / wait_for_write, in which the
\* status register reads st and `ready` is the loop's test of it:
\*   if ready { return Ok(()) }; cycles += 1
loop_turn(st, ready) ==
    /\ last' = Access(COMMAND_REGISTER, "r", st)
    /\ nstatus' = nstatus + 1
    /\ polls' = polls + 1
    /\ IF ready
       THEN pc' = "xfer" /\ wait_result' = "Ok" /\ cycles' = cycles
       ELSE pc' = "wait" /\ wait_result' = "" /\ cycles' = next_cycles
    /\ UNCHANGED <<timeout, handles, op, ip, got, trace, result,
                   config_written>>

\* The loop of wait_for_read / wait_for_write ends: Err(ControllerError::Timeout),
\* which the `?` of the caller returns.
loop_exit ==
    /\ wait_result' = "Timeout"
    /\ Return(OnControllerError(op, ip, Err("Timeout", <<>>)))
    /\ UNCHANGED <<timeout, handles, op, ip, cycles, polls, got, trace,
                   nstatus, last, config_written>>

\* Controller::wait_for_read()
wait_for_read ==
    /\ pc = "wait"
    /\ Cur.k = "read"
    /\ IF loop_condition
       THEN \E st \in StatusBytes : loop_turn(st, read_ready(read_status(st)))
       ELSE loop_exit

\* Controller::wait_for_write()
wait_for_write ==
    /\ pc = "wait"
    /\ Cur.k \in {"cmd", "data"}
    /\ IF loop_condition
       THEN \E st \in StatusBytes : loop_turn(st, write_ready(read_status(st)))
       ELSE loop_exit

\* Step ip has succeeded with `kept` the bytes read so far: the operation
\* goes on to its next step, or returns.
Advance(kept) ==
    /\ ip' = ip + 1
    /\ cycles' = 0
    /\ polls' = 0
    /\ wait_result' = ""
    /\ got' = kept
    /\ IF ip + 1 > Len(Bodies[op])
       THEN Return(Ret(op, kept))
       ELSE pc' = "wait" /\ result' = NoResult

\* self.command_register.write(byte), after wait_for_write returned Ok.
command_register_write ==
    /\ pc = "xfer"
    /\ Cur.k = "cmd"
    /\ trace' = Append(trace, Access(COMMAND_REGISTER, "w", Cur.byte))
    /\ last' = Access(COMMAND_REGISTER, "w", Cur.byte)
    /\ Advance(got)
    /\ UNCHANGED <<timeout, handles, op, nstatus, config_written>>

\* self.data_register.write(data), after wait_for_write returned Ok.
data_register_write ==
    /\ pc = "xfer"
    /\ Cur.k = "data"
    /\ trace' = Append(trace, Access(DATA_REGISTER, "w", Cur.byte))
    /\ last' = Access(DATA_REGISTER, "w", Cur.byte)
    /\ Advance(got)
    /\ config_written' =
            IF op.name = "write_config" THEN Cur.byte ELSE config_written
    /\ UNCHANGED <<timeout, handles, op, nstatus>>

\* The result of check_response for the byte read by a step of that kind.
check_response(check, byte) ==
    CASE check = "keyboard" -> Keyboard_check_response(byte)
      [] check = "mouse" -> Mouse_check_response(byte)
      [] OTHER -> Ok("unit", <<>>)

\* A read that writes the byte before it again, up to three times, when the
\* device answers it with resend.
data_register_read_retry ==
    /\ pc = "xfer"
    /\ Cur.k = "read"
    /\ \E byte \in DeviceData(op, ip) :
        /\ trace' = Append(trace, Access(DATA_REGISTER, "r", byte))
        /\ last' = Access(DATA_REGISTER, "r", byte)
        /\ IF Cur.check = "none"
           THEN Advance(Append(got, byte))
           ELSE IF check_response(Cur.check, byte).ok
           THEN Advance(got)
           ELSE IF byte = RESEND /\ Len(trace) < 8
           THEN /\ ip' = ip - 1
                /\ pc' = "wait"
                /\ cycles' = 0
                /\ polls' = 0
                /\ wait_result' = ""
                /\ UNCHANGED <<got, result>>
           ELSE /\ Return(OnCheckError(op, check_response(Cur.check, byte)))
                /\ UNCHANGED <<ip, cycles, polls, wait_result, got>>
    /\ UNCHANGED <<timeout, handles, op, nstatus, config_written>>

\* self.data_register.read(), after wait_for_read returned Ok.  A byte read
\* by check_response is classified, and an error ends the operation; any
\* other byte is kept.
data_register_read ==
    /\ pc = "xfer"
    /\ Cur.k = "read"
    /\ \E byte \in DeviceData(op, ip) :
        /\ trace' = Append(trace, Access(DATA_REGISTER, "r", byte))
        /\ last' = Access(DATA_REGISTER, "r", byte)
        /\ IF Cur.check = "none"
           THEN Advance(Append(got, byte))
           ELSE IF check_response(Cur.check, byte).ok
           THEN Advance(got)
           ELSE /\ Return(OnCheckError(op, check_response(Cur.check, byte)))
                /\ UNCHANGED <<ip, cycles, polls, wait_result, got>>
    /\ UNCHANGED <<timeout, handles, op, nstatus, config_written>>

\* The caller has the result: no operation is in progress any more.
Idle ==
    /\ pc = "done"
    /\ pc' = "idle"
    /\ op' = Op("controller", "none", 0, 0)
    /\ ip' = 0
    /\ cycles' = 0
    /\ polls' = 0
    /\ wait_result' = ""
    /\ got' = <<>>
    /\ trace' = <<>>
    /\ nstatus' = 0
    /\ last' = NoAccess
    /\ result' = NoResult
    /\ UNCHANGED <<timeout, handles, config_written>>

\* A step of the operation in progress.
Step_ ==
    \/ wait_for_read
    \/ wait_for_write
    \/ command_register_write
    \/ data_register_write
    \/ data_register_read

Next ==
    \/ keyboard
    \/ mouse
    \/ drop
    \/ Call
    \/ call_read_status
    \/ wait_for_read
    \/ wait_for_write
    \/ command_register_write
    \/ data_register_write
    \/ data_register_read
    \/ Idle

Spec == Init /\ [][Next]_vars

\* The driver runs on one processor without suspension: an operation that
\* has been called keeps taking steps until it returns.
FairSpec == Spec /\ WF_vars(Step_)

\* Every operation that is called returns.
Terminates == Running ~> pc = "done"

TypeOK ==
    /\ timeout \in 0..MaxTimeout
    /\ handles \subseteq {"keyboard", "mouse"}
    /\ pc \in {"idle", "wait", "xfer", "done"}
    /\ cycles \in 0..MaxTimeout
    /\ polls \in 0..MaxTimeout
    /\ wait_result \in {"", "Ok", "Timeout"}
    /\ config_written \in {None} \cup 0..255

(***************************************************************************)
(* What the properties below observe.                                      *)
(***************************************************************************)
IsStatusRead(a) == a.reg = COMMAND_REGISTER /\ a.dir = "r"
IsDataRead(a) == a.reg = DATA_REGISTER /\ a.dir = "r"
IsDataWrite(a) == a.reg = DATA_REGISTER /\ a.dir = "w"
IsCommandWrite(a) == a.reg = COMMAND_REGISTER /\ a.dir = "w"

\* Bit 0 and bit 1 of a status byte, by arithmetic.
OutputFullSet(b) == b % 2 = 1
InputFullClear(b) == (b \div 2) % 2 = 0

\* What a wait before a transfer of kind k is waiting to see in status b.
ReadyFor(k, b) == IF k = "read" THEN OutputFullSet(b) ELSE InputFullClear(b)

\* The step of the operation in progress that failed, if it failed.
FailedStep == pc = "done" /\ op \in AllOps /\ ip <= Len(Bodies[op])

(***************************************************************************)
(* C1.  wait_for_read (wait_for_write) on a controller with timeout T      *)
(* reads the status register at most T times; it returns Ok at the first   *)
(* read that shows OUTPUT_FULL set (INPUT_FULL clear), every read before   *)
(* it having shown not-ready; and it returns Timeout exactly when it has   *)
(* made T reads and all of them showed not-ready.                          *)
(***************************************************************************)
C1_State ==
    /\ polls <= timeout
    /\ pc = "wait" =>
        /\ wait_result = ""
        /\ polls = cycles
        /\ polls > 0 => IsStatusRead(last) /\ ~ReadyFor(Cur.k, last.byte)
    /\ wait_result = "Ok" => pc \in {"xfer", "done"}
    /\ pc = "xfer" =>
        /\ wait_result = "Ok"
        /\ polls = cycles + 1
        /\ IsStatusRead(last) /\ ReadyFor(Cur.k, last.byte)
    /\ wait_result = "Timeout" =>
        /\ pc = "done"
        /\ polls = timeout
        /\ cycles = timeout
        /\ timeout > 0 => IsStatusRead(last) /\ ~ReadyFor(Cur.k, last.byte)

C1_Step ==
    pc = "wait" =>
        IF polls < timeout
        THEN /\ polls' = polls + 1
             /\ nstatus' = nstatus + 1
             /\ IsStatusRead(last')
             /\ IF ReadyFor(Cur.k, last'.byte)
                THEN wait_result' = "Ok"
                ELSE wait_result' = "" /\ pc' = "wait"
        ELSE /\ wait_result' = "Timeout"
             /\ nstatus' = nstatus
             /\ last' = last

C1_BoundedWait == []C1_State /\ [][C1_Step]_vars

\* A wait for a byte to read gives up after MaxTimeout reads of the status.
C1_Witness ==
    /\ wait_result = "Timeout"
    /\ timeout = MaxTimeout
    /\ polls = MaxTimeout
    /\ Cur.k = "read"
    /\ ip > 1

(***************************************************************************)
(* C2.  As stated: in every operation the number of status reads is at     *)
(* most timeout times the number of register transfers it attempts.        *)
(* read_status reads the status register once whatever the timeout and     *)
(* attempts no transfer; its one register access is counted here as an     *)
(* attempt, and the bound still fails when timeout is 0.                   *)
(***************************************************************************)
Attempted ==
    CASE pc = "idle" -> 0
      [] op \in AllOps ->
            IF ip <= Len(Bodies[op]) THEN ip ELSE Len(Bodies[op])
      [] OTHER -> 1

C2_AsStated == nstatus <= timeout * Attempted

(***************************************************************************)
(* C2.  Every operation that has been called returns, whatever the device  *)
(* does, and every operation that goes through the waits makes at most     *)
(* timeout status reads for each transfer it attempts; read_status makes   *)
(* exactly one status read.                                                *)
(***************************************************************************)
C2_Bound ==
    IF op \in AllOps \/ pc = "idle"
    THEN nstatus <= timeout * Attempted
    ELSE nstatus = 1

C2_Returns == []C2_Bound /\ (Running ~> pc = "done")

\* The dump whose every wait saw readiness at its last turn, but the last
\* wait, which saw none: the bound is reached.
C2_Witness ==
    /\ op.name = "diagnostic_dump"
    /\ wait_result = "Timeout"
    /\ ip = DumpLen + 1
    /\ timeout = MaxTimeout
    /\ nstatus = timeout * (DumpLen + 1)

(***************************************************************************)
(* C3.  Every read of the data register comes right after a status read    *)
(* that shows OUTPUT_FULL set, and every write of the data register or of  *)
(* the command register right after a status read that shows INPUT_FULL    *)
(* clear, the opcodes computed by read_internal_ram, write_internal_ram    *)
(* and pulse_output_low_nibble included; a wait that ends in Timeout is    *)
(* followed by no transfer.                                                *)
(***************************************************************************)
C3_Gated ==
    /\ (last' # last /\ last' # NoAccess /\ ~IsStatusRead(last')) =>
            trace' = Append(trace, last')
    /\ Len(trace') = Len(trace) + 1 =>
        /\ last' = trace'[Len(trace')]
        /\ IsStatusRead(last)
        /\ IF IsDataRead(last')
           THEN OutputFullSet(last.byte)
           ELSE (IsDataWrite(last') \/ IsCommandWrite(last'))
                    /\ InputFullClear(last.byte)
    /\ wait_result' = "Timeout" => trace' = trace
    /\ wait_result = "Timeout" => Len(trace') <= Len(trace)

C3_GatedTransfers == [][C3_Gated]_vars

\* write_internal_ram(33, _) has written its computed opcode and its data.
C3_Witness ==
    /\ pc = "done"
    /\ op.name = "write_internal_ram"
    /\ op.a = 33
    /\ Len(trace) = 2
    /\ trace[1] = Access(COMMAND_REGISTER, "w", 97)
    /\ IsDataWrite(trace[2])

\* The operations whose command carries a parameter byte.
CarriesParameter ==
    {"Keyboard::set_leds", "Keyboard::get_scancode_set",
     "Keyboard::set_scancode_set", "Keyboard::set_typematic_rate_and_delay",
     "Keyboard::set_key_typematic", "Keyboard::set_key_make_break",
     "Keyboard::set_key_make_only",
     "Mouse::set_resolution", "Mouse::set_sample_rate"}

DeviceOp == pc # "idle" /\ op.dev \in {"keyboard", "mouse"}

AckRead == Access(DATA_REGISTER, "r", 250)
ResendRead == Access(DATA_REGISTER, "r", 254)

\* The transfers of the operation that wrote the data register.
DataWrites == {i \in 1..Len(trace) : IsDataWrite(trace[i])}

\* The reads of the operation that answer a byte just written to the device.
Handshakes ==
    {i \in 2..Len(trace) : IsDataRead(trace[i]) /\ IsDataWrite(trace[i - 1])}

(***************************************************************************)
(* C4.  In a keyboard command cycle the byte read after a byte written is  *)
(* classified: 0xFA lets the operation go on; 0xFE ends it with Resend     *)
(* (which get_keyboard_type turns into its own result); 0x00 and 0xFF end  *)
(* it with KeyDetectionError; any other byte b ends it with                *)
(* InvalidResponse(b).  echo and resend_last_byte read their answer        *)
(* without the command cycle.                                              *)
(***************************************************************************)
C4_Classified ==
    (pc # "idle" /\ op.dev = "keyboard"
        /\ op.name \notin {"Keyboard::echo", "Keyboard::resend_last_byte"}) =>
    \A i \in Handshakes :
        LET b == trace[i].byte
            ended == pc = "done" /\ ip = i /\ i = Len(trace) /\ ~result.ok
        IN  CASE b = 250 -> ip > i
              [] b = 254 ->
                    \/ ended /\ result.kind = "Resend" /\ result.v = <<>>
                    \/ op.name = "Keyboard::get_keyboard_type"
                            /\ pc = "done" /\ ip = i
              [] b \in {0, 255} ->
                    ended /\ result.kind = "KeyDetectionError"
                          /\ result.v = <<>>
              [] OTHER ->
                    ended /\ result.kind = "InvalidResponse"
                          /\ result.v = <<b>>

\* The handshake of a parameter byte reads 0x00.
C4_Witness ==
    /\ op.name = "Keyboard::set_scancode_set"
    /\ pc = "done"
    /\ Len(trace) = 4
    /\ trace[4] = Access(DATA_REGISTER, "r", 0)
    /\ result.kind = "KeyDetectionError"

(***************************************************************************)
(* C5.  The parameter byte of a Keyboard or Mouse command, the second byte *)
(* the operation writes to the data register, is written only when the     *)
(* transfer before it was the read of the opcode's handshake and read      *)
(* 0xFA, and right after a status read that shows INPUT_FULL clear; an     *)
(* operation that has read no 0xFA has written no parameter byte.          *)
(***************************************************************************)
C5_State ==
    DeviceOp =>
        /\ \A i \in DataWrites :
                (\E j \in DataWrites : j < i) =>
                    /\ trace[i - 1] = AckRead
                    /\ op.name \in CarriesParameter
        /\ (\A i \in 1..Len(trace) : trace[i] # AckRead) =>
                Cardinality(DataWrites) <= 1

C5_Step ==
    (DeviceOp /\ Len(trace') = Len(trace) + 1 /\ IsDataWrite(last')
        /\ DataWrites # {}) =>
            /\ trace[Len(trace)] = AckRead
            /\ IsStatusRead(last)
            /\ InputFullClear(last.byte)

C5_ParameterAfterAck == []C5_State /\ [][C5_Step]_vars

\* set_sample_rate(100) has written its parameter byte after the ack.
C5_Witness ==
    /\ op.name = "Mouse::set_sample_rate"
    /\ Len(trace) = 4
    /\ trace[3] = AckRead
    /\ trace[4] = Access(DATA_REGISTER, "w", 100)

(***************************************************************************)
(* C6.  A Keyboard or Mouse operation writes its opcode once and its       *)
(* parameter byte, if it has one, once; a byte it has written that the     *)
(* device answers with 0xFE ends the operation; and once it has read 0xFE  *)
(* or a wait has returned Timeout it writes no register again.             *)
(***************************************************************************)
C6_State ==
    DeviceOp =>
        /\ Cardinality(DataWrites)
                <= (IF op.name \in CarriesParameter THEN 2 ELSE 1)
        /\ \A i \in Handshakes :
                trace[i] = ResendRead => pc = "done" /\ i = Len(trace)
        /\ \A i \in 1..Len(trace) : \A j \in 1..Len(trace) :
                (i < j /\ trace[i] = ResendRead) => trace[j].dir = "r"

C6_Step ==
    (DeviceOp /\ (wait_result = "Timeout"
                    \/ \E i \in 1..Len(trace) : trace[i] = ResendRead)) =>
        /\ trace' = trace \/ trace' = Append(trace, last') \/ trace' = <<>>
        /\ trace' = Append(trace, last') => last'.dir = "r"
        /\ wait_result = "Timeout" => trace' = trace \/ trace' = <<>>

C6_NoRetry == []C6_State /\ [][C6_Step]_vars

\* set_leds: the device answers the parameter byte with resend.
C6_Witness ==
    /\ op.name = "Keyboard::set_leds"
    /\ pc = "done"
    /\ Len(trace) = 4
    /\ trace[4] = ResendRead
    /\ result.kind = "Resend"

(***************************************************************************)
(* C7.  As stated: every byte a Mouse operation writes to the data         *)
(* register comes right after a write of WriteMouse (0xD4) to the command  *)
(* register.                                                               *)
(***************************************************************************)
C7_MouseSelect ==
    (pc # "idle" /\ op.dev = "mouse") =>
        \A i \in DataWrites :
            i > 1 /\ trace[i - 1] = Access(COMMAND_REGISTER, "w", 212)

(***************************************************************************)
(* C8.  That at most one of the Keyboard and Mouse handles holds the       *)
(* controller is decided when the program is compiled: keyboard() and      *)
(* mouse() take &mut self and the handle keeps that borrow for its         *)
(* lifetime.  The program has no acquire, no release and no second         *)
(* execution context at run time, so the guards of keyboard, mouse and     *)
(* Call above are the assumption that the program compiled, and no         *)
(* property of the behaviours states more than they do.                    *)
(***************************************************************************)

(***************************************************************************)
(* C9.  As stated, for the mode enabled: a read of the data register that  *)
(* finds OUTPUT_FULL clear fails at once with WouldBlock; it does not poll *)
(* again and does not return Timeout.  The Controller has the one field    *)
(* `timeout` and no mode to enable, so this is stated of every read.       *)
(***************************************************************************)
C9_NonBlockingRead ==
    /\ (pc = "wait" /\ Cur.k = "read") => polls = 0
    /\ (FailedStep /\ Cur.k = "read" /\ IsStatusRead(last)) =>
            /\ result.kind = "WouldBlock" \/ result.inner = "WouldBlock"
            /\ polls = 1
    /\ ~(wait_result = "Timeout" /\ Cur.k = "read")

(***************************************************************************)
(* C10.  get_keyboard_type: when the device answers the identify opcode    *)
(* with 0xFE the operation returns Ok(XT), and that read is its last       *)
(* access of the data register.                                            *)
(***************************************************************************)
C10_XT ==
    (op.name = "Keyboard::get_keyboard_type" /\ Len(trace) >= 2
        /\ trace[2] = ResendRead) =>
            /\ pc = "done"
            /\ result = Ok("XT", <<>>)
            /\ Len(trace) = 2
            /\ last = trace[2]

C10_Witness ==
    /\ op.name = "Keyboard::get_keyboard_type"
    /\ trace = <<Access(DATA_REGISTER, "w", 242), ResendRead>>
    /\ result.kind = "XT"

(***************************************************************************)
(* C11.  get_keyboard_type: when the identify opcode has been answered     *)
(* with 0xFA and the wait for the first identification byte times out,     *)
(* the operation returns Ok(ATWithTranslation), having read no byte after  *)
(* the handshake.                                                          *)
(***************************************************************************)
C11_ATWithTranslation ==
    (op.name = "Keyboard::get_keyboard_type" /\ wait_result = "Timeout"
        /\ Len(trace) = 2) =>
            /\ trace = <<Access(DATA_REGISTER, "w", 242), AckRead>>
            /\ pc = "done"
            /\ result = Ok("ATWithTranslation", <<>>)

C11_Witness ==
    /\ op.name = "Keyboard::get_keyboard_type"
    /\ wait_result = "Timeout"
    /\ trace = <<Access(DATA_REGISTER, "w", 242), AckRead>>
    /\ timeout = MaxTimeout
    /\ polls = MaxTimeout
    /\ result.kind = "ATWithTranslation"

(***************************************************************************)
(* C12.  get_keyboard_type: the two identification bytes (a, b) give the   *)
(* keyboard type the identification table names for the pair, and          *)
(* Unknown(a, b) with both bytes as read for every pair the table does not *)
(* hold.                                                                   *)
(***************************************************************************)
IdentificationTable ==
    {<<171, 131, "MF2">>, <<171, 65, "MF2WithTranslation">>,
     <<171, 193, "MF2WithTranslation">>, <<171, 132, "ThinkPad">>,
     <<171, 84, "ThinkPadWithTranslation">>, <<171, 134, "Unknown122Key">>,
     <<191, 191, "IBM1390876">>, <<171, 133, "NetworkComputingDevicesN97">>,
     <<172, 161, "NetworkComputingDevicesSunLayout">>,
     <<171, 144, "OldJapaneseG">>, <<171, 145, "OldJapaneseP">>,
     <<171, 146, "OldJapaneseA">>}

C12_IdentificationTable ==
    (op.name = "Keyboard::get_keyboard_type" /\ Len(trace) = 4) =>
        LET a == trace[3].byte
            b == trace[4].byte
            named == {e \in IdentificationTable : e[1] = a /\ e[2] = b}
        IN  /\ IsDataRead(trace[3]) /\ IsDataRead(trace[4])
            /\ pc = "done"
            /\ result.ok
            /\ \A e \in named : result.kind = e[3] /\ result.v = <<>>
            /\ named = {} => result.kind = "Unknown" /\ result.v = <<a, b>>

\* A pair that shares its first byte with the table but is not in it.
C12_Witness ==
    /\ op.name = "Keyboard::get_keyboard_type"
    /\ Len(trace) = 4
    /\ trace[3].byte = 171
    /\ trace[4].byte = 191
    /\ result = Ok("Unknown", <<171, 191>>)

(***************************************************************************)
(* C13.  test_controller returns Ok exactly when the byte it reads is      *)
(* 0x55, test_keyboard and test_mouse exactly when it is 0x00; for every   *)
(* other byte b they return TestFailed { response: b }.                    *)
(***************************************************************************)
C13_SelfTests ==
    (op.name \in {"test_controller", "test_keyboard", "test_mouse"}
        /\ Len(trace) = 2) =>
        LET b == trace[2].byte
            passed == IF op.name = "test_controller" THEN 85 ELSE 0
        IN  /\ IsDataRead(trace[2])
            /\ pc = "done"
            /\ result.ok <=> b = passed
            /\ b = passed => result = Ok("unit", <<>>)
            /\ b # passed => result = Err("TestFailed", <<b>>)

\* test_controller reads the byte that test_keyboard takes for a pass.
C13_Witness ==
    /\ op.name = "test_controller"
    /\ Len(trace) = 2
    /\ trace[2].byte = 0
    /\ result = Err("TestFailed", <<0>>)

(***************************************************************************)
(* C14.  For every byte_number, read_internal_ram writes the opcode        *)
(* 0x20 + byte_number mod 32 to the command register and                   *)
(* write_internal_ram the opcode 0x60 + byte_number mod 32, followed by    *)
(* the data byte: the opcode lies in 0x20..0x3F (0x60..0x7F), and          *)
(* byte_number and byte_number + 32 give the same opcode.                  *)
(***************************************************************************)
C14_RamOpcode ==
    /\ (op.name = "read_internal_ram" /\ Len(trace) >= 1) =>
            /\ trace[1] = Access(COMMAND_REGISTER, "w", 32 + (op.a % 32))
            /\ trace[1].byte \in 32..63
            /\ \A i \in 2..Len(trace) : IsDataRead(trace[i])
    /\ (op.name = "write_internal_ram" /\ Len(trace) >= 1) =>
            /\ trace[1] = Access(COMMAND_REGISTER, "w", 96 + (op.a % 32))
            /\ trace[1].byte \in 96..127
            /\ Len(trace) >= 2 => trace[2] = Access(DATA_REGISTER, "w", op.b)

\* read_internal_ram(100) addresses RAM byte 4.
C14_Witness ==
    /\ op.name = "read_internal_ram"
    /\ op.a = 100
    /\ pc = "done"
    /\ Len(trace) = 2
    /\ trace[1].byte = 36

(***************************************************************************)
(* C15.  read_config returns the byte it reads with bits 3 and 7 cleared   *)
(* (b & 0b01110111), so the zero byte gives the empty Config; write_config *)
(* writes the bits of its Config to RAM byte 0; and a read_config that     *)
(* follows write_config(c) and is answered with the byte written returns   *)
(* exactly c.                                                              *)
(***************************************************************************)
DefinedConfigBits(b) == b - 8 * ((b \div 8) % 2) - 128 * ((b \div 128) % 2)

C15_ConfigRoundTrip ==
    /\ (op.name = "read_config" /\ Len(trace) = 2) =>
            /\ trace[1] = Access(COMMAND_REGISTER, "w", 32)
            /\ IsDataRead(trace[2])
            /\ pc = "done"
            /\ result = Ok("ControllerConfigFlags",
                           <<DefinedConfigBits(trace[2].byte)>>)
            /\ (config_written # None /\ trace[2].byte = config_written) =>
                    result.v = <<config_written>>
    /\ (op.name = "write_config" /\ Len(trace) = 2) =>
            /\ trace = <<Access(COMMAND_REGISTER, "w", 96),
                         Access(DATA_REGISTER, "w", op.a)>>
            /\ config_written = op.a
            /\ DefinedConfigBits(op.a) = op.a

\* write_config of every defined bit, read back.
C15_Witness ==
    /\ op.name = "read_config"
    /\ config_written = 119
    /\ Len(trace) = 2
    /\ trace[2].byte = 119
    /\ result.v = <<119>>

MouseSelectWrite == Access(COMMAND_REGISTER, "w", 212)

(***************************************************************************)
(* C16.  As stated: set_resolution accepts exactly the counts per          *)
(* millimetre 1, 2, 4 and 8, sends after the opcode 0xE8 the index of the  *)
(* value (1 -> 0, 2 -> 1, 4 -> 2, 8 -> 3), and rejects every other value v *)
(* with InvalidResolution(v).                                              *)
(***************************************************************************)
C16_CountsPerMm ==
    (op.name = "Mouse::set_resolution" /\ pc = "done") =>
        IF op.a \in {1, 2, 4, 8}
        THEN /\ result.kind # "InvalidResolution"
             /\ Len(trace) >= 2 => trace[2] = Access(DATA_REGISTER, "w", 232)
             /\ Len(trace) >= 4 =>
                    trace[4] = Access(DATA_REGISTER, "w",
                                      CASE op.a = 1 -> 0 [] op.a = 2 -> 1
                                        [] op.a = 4 -> 2 [] op.a = 8 -> 3)
        ELSE /\ result = Err("InvalidResolution", <<op.a>>)
             /\ trace = <<>>

(***************************************************************************)
(* C17.  set_sample_rate accepts exactly the rates 10, 20, 40, 60, 80, 100 *)
(* and 200: for these it sends the opcode 0xF3 and then the rate itself;   *)
(* for every other value v it returns InvalidSampleRate(v).                *)
(***************************************************************************)
C17_SampleRate ==
    (op.name = "Mouse::set_sample_rate" /\ pc # "idle") =>
        IF op.a \in {10, 20, 40, 60, 80, 100, 200}
        THEN /\ result.kind # "InvalidSampleRate"
             /\ Len(trace) >= 1 => trace[1] = MouseSelectWrite
             /\ Len(trace) >= 2 => trace[2] = Access(DATA_REGISTER, "w", 243)
             /\ Len(trace) >= 4 => trace[4] = Access(DATA_REGISTER, "w", op.a)
             /\ (pc = "done" /\ result.ok) => Len(trace) = 5
        ELSE /\ pc = "done"
             /\ result = Err("InvalidSampleRate", <<op.a>>)

\* set_sample_rate(200) has sent the opcode and the rate, both acknowledged.
C17_Witness ==
    /\ op.name = "Mouse::set_sample_rate"
    /\ op.a = 200
    /\ pc = "done"
    /\ result.ok
    /\ trace[4] = Access(DATA_REGISTER, "w", 200)
    /\ trace[5] = AckRead

(***************************************************************************)
(* C18.  A set_resolution or set_sample_rate called with a value its table *)
(* does not hold returns the error at once: it reads no status, writes no  *)
(* command and no data, so the registers see nothing of the call.          *)
(***************************************************************************)
RejectedSetter ==
    \/ op.name = "Mouse::set_resolution" /\ op.a \notin {0, 1, 2, 3}
    \/ op.name = "Mouse::set_sample_rate"
            /\ op.a \notin {10, 20, 40, 60, 80, 100, 200}

C18_State ==
    /\ (pc # "idle" /\ RejectedSetter) =>
            /\ pc = "done"
            /\ result.kind \in {"InvalidResolution", "InvalidSampleRate"}
            /\ result.v = <<op.a>>
            /\ nstatus = 0
            /\ trace = <<>>
            /\ last = NoAccess
    /\ (pc # "idle" /\ ~result.ok /\ result.inner = ""
            /\ result.kind \in {"InvalidResolution", "InvalidSampleRate"}
            /\ op.name \in {"Mouse::set_resolution", "Mouse::set_sample_rate"}) =>
                nstatus = 0 /\ trace = <<>>

C18_Step ==
    RejectedSetter' => (nstatus' = 0 /\ trace' = <<>> /\ last' = NoAccess)

C18_RejectedNoAccess == []C18_State /\ [][C18_Step]_vars

\* set_resolution(5) is rejected.
C18_Witness ==
    /\ op.name = "Mouse::set_resolution"
    /\ op.a = 5
    /\ pc = "done"
    /\ result = Err("InvalidResolution", <<5>>)
    /\ nstatus = 0
    /\ last = NoAccess

(***************************************************************************)
(* C19.  get_status_packet sends 0xE9 to the mouse and, once it is         *)
(* acknowledged, reads exactly three data bytes: status, resolution and    *)
(* sample rate, all three before it validates any.  It returns             *)
(* InvalidResolution(r) when the resolution byte r is outside the table    *)
(* set_resolution accepts, otherwise InvalidSampleRate(s) when the rate    *)
(* byte s is outside the sample rate table, otherwise the packet: the      *)
(* status byte with the bits MouseStatus does not define (3 and 7)         *)
(* cleared, and r and s as they were read.                                 *)
(***************************************************************************)
StatusPacketRead ==
    /\ op.name = "Mouse::get_status_packet"
    /\ pc = "done"
    /\ Len(trace) = 6

C19_StatusPacket ==
    /\ (op.name = "Mouse::get_status_packet" /\ pc # "idle") =>
        /\ Len(trace) <= 6
        /\ Len(trace) >= 1 => trace[1] = MouseSelectWrite
        /\ Len(trace) >= 2 => trace[2] = Access(DATA_REGISTER, "w", 233)
        /\ \A i \in 3..Len(trace) :
                trace[i].reg = DATA_REGISTER /\ trace[i].dir = "r"
        /\ Len(trace) >= 4 => trace[3] = AckRead
        /\ (pc = "done" /\ (result.ok \/ result.kind \in
                {"InvalidResolution", "InvalidSampleRate"})) => Len(trace) = 6
    /\ StatusPacketRead =>
        LET st == trace[4].byte
            r == trace[5].byte
            s == trace[6].byte
        IN  result =
                IF r \notin {0, 1, 2, 3}
                THEN Err("InvalidResolution", <<r>>)
                ELSE IF s \notin {10, 20, 40, 60, 80, 100, 200}
                THEN Err("InvalidSampleRate", <<s>>)
                ELSE Ok("status_packet",
                        <<(st % 8) + 16 * ((st \div 16) % 8), r, s>>)

\* Both the resolution and the rate are out of their tables: all three bytes
\* were read, and the resolution is the one reported.
C19_Witness ==
    /\ StatusPacketRead
    /\ trace[4].byte = 255
    /\ trace[5].byte = 16
    /\ trace[6].byte = 255
    /\ result = Err("InvalidResolution", <<16>>)

\* A status byte of 0xFF is returned as 0x77.
C19_WitnessPacket ==
    /\ StatusPacketRead
    /\ trace[4].byte = 255
    /\ result = Ok("status_packet", <<119, 1, 100>>)

(***************************************************************************)
(* C20.  read_data_packet decodes the three bytes it read, for every flags *)
(* byte f and movement bytes x and y: X is x - 256 when bit 4 of f         *)
(* (X_SIGN_BIT) is set and x otherwise, Y is y - 256 when bit 5 of f       *)
(* (Y_SIGN_BIT) is set and y otherwise, so each movement is extended only  *)
(* under its own sign bit and lies in -256..255.  Flags 0b00010000 with    *)
(* x = 0xFF and y = 0x01 decode to X = -1, Y = 1.                          *)
(***************************************************************************)
DataPacketRead ==
    /\ op.name = "Mouse::read_data_packet"
    /\ pc = "done"
    /\ Len(trace) = 3

C20_PacketDecoding ==
    /\ (op.name = "Mouse::read_data_packet" /\ pc = "done" /\ result.ok) =>
            Len(trace) = 3
    /\ DataPacketRead =>
        LET f == trace[1].byte
            x == trace[2].byte
            y == trace[3].byte
            X == result.v[2]
            Y == result.v[3]
        IN  /\ result.ok
            /\ result.kind = "movement_packet"
            /\ X = (IF (f \div 16) % 2 = 1 THEN x - 256 ELSE x)
            /\ Y = (IF (f \div 32) % 2 = 1 THEN y - 256 ELSE y)
            /\ X \in -256..255
            /\ Y \in -256..255
            /\ (f = 16 /\ x = 255 /\ y = 1) => (X = -1 /\ Y = 1)

\* The packet 0x10, 0xFF, 0x01 was read and decoded.
C20_Witness ==
    /\ DataPacketRead
    /\ trace[1].byte = 16
    /\ trace[2].byte = 255
    /\ trace[3].byte = 1
    /\ result.v[2] = -1
    /\ result.v[3] = 1

(***************************************************************************)
(* C21.  read_data_packet sends nothing: it writes neither the command     *)
(* register nor the data register, and apart from status reads it makes at *)
(* most three reads of the data register.  request_data_packet first runs  *)
(* the acknowledgment cycle of ReadData (0xEB), and then makes the same    *)
(* three reads and returns the same decoding of them.                      *)
(***************************************************************************)
\* The movement packet for the flags byte f and the movement bytes x, y.
DecodedPacket(f, x, y) ==
    Ok("movement_packet",
       <<f - 8 * ((f \div 8) % 2),
         IF (f \div 16) % 2 = 1 THEN x - 256 ELSE x,
         IF (f \div 32) % 2 = 1 THEN y - 256 ELSE y>>)

C21_ReadSendsNothing ==
    /\ (op.name = "Mouse::read_data_packet" /\ pc # "idle") =>
        /\ Len(trace) <= 3
        /\ \A i \in 1..Len(trace) : IsDataRead(trace[i])
        /\ last = NoAccess \/ IsStatusRead(last) \/ IsDataRead(last)
        /\ (pc = "done" /\ result.ok) =>
            /\ Len(trace) = 3
            /\ result = DecodedPacket(trace[1].byte, trace[2].byte,
                                      trace[3].byte)
    /\ (op.name = "Mouse::request_data_packet" /\ pc # "idle") =>
        /\ Len(trace) <= 6
        /\ Len(trace) >= 1 => trace[1] = MouseSelectWrite
        /\ Len(trace) >= 2 => trace[2] = Access(DATA_REGISTER, "w", 235)
        /\ \A i \in 3..Len(trace) : IsDataRead(trace[i])
        /\ Len(trace) >= 4 => trace[3] = AckRead
        /\ (pc = "done" /\ result.ok) =>
            /\ Len(trace) = 6
            /\ result = DecodedPacket(trace[4].byte, trace[5].byte,
                                      trace[6].byte)

\* request_data_packet was acknowledged and has read and decoded a packet
\* with both sign bits set.
C21_Witness ==
    /\ op.name = "Mouse::request_data_packet"
    /\ pc = "done"
    /\ Len(trace) = 6
    /\ trace[4].byte = 255
    /\ result = Ok("movement_packet", <<247, -255, -156>>)

\* read_data_packet has read a packet, and only status reads besides.
C21_WitnessRead ==
    /\ op.name = "Mouse::read_data_packet"
    /\ pc = "done"
    /\ result.ok
    /\ nstatus = 2 * 3
    /\ Len(trace) = 3

(***************************************************************************)
(* C22.  Mouse reset_and_self_test: once the reset opcode (0xFF) has been  *)
(* acknowledged and the result byte of the self-test has been read, the    *)
(* operation goes on to exactly one more read of the data register (the    *)
(* device id), whatever the result byte was; when that read succeeds it    *)
(* returns Ok for 0xAA, SelfTestFailed for 0xFC, Resend for 0xFE and       *)
(* InvalidResponse(b) for any other b.                                     *)
(***************************************************************************)
\* The outcome of a self-test whose result byte is b.
SelfTestOutcome(b) ==
    CASE b = 170 -> Ok("unit", <<>>)
      [] b = 252 -> Err("SelfTestFailed", <<>>)
      [] b = 254 -> Err("Resend", <<>>)
      [] OTHER -> Err("InvalidResponse", <<b>>)

MouseReset == op.name = "Mouse::reset_and_self_test" /\ pc # "idle"

C22_State ==
    MouseReset =>
        /\ Len(trace) <= 5
        /\ Len(trace) >= 1 => trace[1] = MouseSelectWrite
        /\ Len(trace) >= 2 => trace[2] = Access(DATA_REGISTER, "w", 255)
        /\ \A i \in 3..Len(trace) : IsDataRead(trace[i])
        /\ Len(trace) >= 4 => trace[3] = AckRead
        /\ Len(trace) = 4 =>
            IF pc = "done"
            THEN wait_result = "Timeout"
                    /\ result = [ok |-> FALSE, kind |-> "ControllerError",
                                 inner |-> "Timeout", v |-> <<>>]
            ELSE ip = 5 /\ Cur.k = "read" /\ result = NoResult
        /\ Len(trace) = 5 =>
            /\ pc = "done"
            /\ result = SelfTestOutcome(trace[4].byte)
        /\ (pc = "done" /\ (result.ok \/ result.kind = "SelfTestFailed")) =>
                Len(trace) = 5

\* The read after the result byte is a read of the data register, and ends
\* the operation.
C22_Step ==
    (MouseReset /\ Len(trace) = 4 /\ Len(trace') = 5) =>
        /\ IsDataRead(trace'[5])
        /\ pc' = "done"
        /\ result' = SelfTestOutcome(trace[4].byte)

C22_DeviceIdConsumed == []C22_State /\ [][C22_Step]_vars

\* The self-test failed, and the device id was read all the same.
C22_Witness ==
    /\ MouseReset
    /\ Len(trace) = 5
    /\ trace[4].byte = 252
    /\ result = Err("SelfTestFailed", <<>>)

(***************************************************************************)
(* C23.  Keyboard reset_and_self_test: after the reset opcode (0xFF) has   *)
(* been acknowledged it reads exactly one result byte, and returns Ok      *)
(* exactly when the byte is 0xAA: 0xFC gives SelfTestFailed, 0xFE gives    *)
(* Resend and any other byte b gives InvalidResponse(b).  No register is   *)
(* accessed after the result byte.                                         *)
(***************************************************************************)
KeyboardReset == op.name = "Keyboard::reset_and_self_test" /\ pc # "idle"

C23_State ==
    KeyboardReset =>
        /\ Len(trace) <= 3
        /\ Len(trace) >= 1 => trace[1] = Access(DATA_REGISTER, "w", 255)
        /\ \A i \in 2..Len(trace) : IsDataRead(trace[i])
        /\ Len(trace) = 3 =>
            /\ trace[2] = AckRead
            /\ pc = "done"
            /\ last = trace[3]
            /\ result = (CASE trace[3].byte = 170 -> Ok("unit", <<>>)
                           [] trace[3].byte = 252 -> Err("SelfTestFailed", <<>>)
                           [] trace[3].byte = 254 -> Err("Resend", <<>>)
                           [] OTHER -> Err("InvalidResponse", <<trace[3].byte>>))
        /\ (pc = "done" /\ result.ok) =>
                (Len(trace) = 3 /\ trace[3].byte = 170)
        /\ (pc = "done" /\ result.kind = "SelfTestFailed") => Len(trace) = 3

\* Once the result byte is read, the operation makes no access before it
\* hands the result to the caller.
C23_Step ==
    (KeyboardReset /\ Len(trace) = 3) => (pc' = "idle" /\ nstatus' = 0)

C23_KeyboardSelfTest == []C23_State /\ [][C23_Step]_vars

\* The keyboard answered the reset with the byte of a failed self-test.
C23_Witness ==
    /\ KeyboardReset
    /\ Len(trace) = 3
    /\ trace[3].byte = 252
    /\ result = Err("SelfTestFailed", <<>>)

(***************************************************************************)
(* C24.  As stated: Mouse resend_last_packet treats the answer to its      *)
(* resend request (0xFE) as Keyboard resend_last_byte does: once the       *)
(* request is written it reads the answer of the device, and returns the   *)
(* Resend error when the answer is the resend byte (0xFE); it returns none *)
(* of the resent bytes.                                                    *)
(***************************************************************************)
ResendRequest ==
    /\ op.name \in {"Keyboard::resend_last_byte", "Mouse::resend_last_packet"}
    /\ pc = "done"
    /\ \E i \in 1..Len(trace) : trace[i] = Access(DATA_REGISTER, "w", 254)

C24_MouseResend ==
    ResendRequest =>
        /\ wait_result # "Timeout" =>
            /\ IsDataRead(trace[Len(trace)])
            /\ trace[Len(trace)].byte = 254 => result = Err("Resend", <<>>)
        /\ op.dev = "mouse" => result.v = <<>>

(***************************************************************************)
(* C25.  diagnostic_dump writes the dump opcode (0xAC) once to the command *)
(* register and then reads the data register exactly 32 times; it returns  *)
(* the 32 bytes in the order read.  When the wait of the k-th read times   *)
(* out it returns Timeout, k-1 bytes having been read, and none of them is *)
(* returned.                                                               *)
(***************************************************************************)
Dump == op.name = "diagnostic_dump" /\ pc # "idle"

C25_DiagnosticDump ==
    Dump =>
        /\ Len(trace) <= 33
        /\ Len(trace) >= 1 => trace[1] = Access(COMMAND_REGISTER, "w", 172)
        /\ \A i \in 2..Len(trace) : IsDataRead(trace[i])
        /\ Len(got) = (IF Len(trace) = 0 THEN 0 ELSE Len(trace) - 1)
        /\ Len(trace) = 33 <=> (pc = "done" /\ result.ok)
        /\ (pc = "done" /\ result.ok) =>
                result = Ok("bytes", [i \in 1..32 |-> trace[i + 1].byte])
        /\ (pc = "done" /\ ~result.ok) =>
            /\ wait_result = "Timeout"
            /\ result = Err("Timeout", <<>>)
            /\ Len(trace) = ip - 1
        /\ pc # "done" => result = NoResult

\* The dump has returned the 32 bytes, the first of them 0xff.
C25_Witness ==
    /\ Dump
    /\ pc = "done"
    /\ result.ok
    /\ Len(result.v) = 32
    /\ result.v[1] = 255
    /\ result.v[32] = 31

\* The wait of the 17th read timed out after 16 bytes were read.
C25_WitnessTimeout ==
    /\ Dump
    /\ pc = "done"
    /\ result = Err("Timeout", <<>>)
    /\ ip = 18
    /\ Len(got) = 16

(***************************************************************************)
(* C26.  For every mask, pulse_output_low_nibble(mask) writes exactly one  *)
(* byte, 0xF0 | mask, to the command register, and nothing to the data     *)
(* register: the high nibble of the opcode is all ones and its low nibble  *)
(* is the low nibble of the mask, whatever the high nibble of the mask.    *)
(***************************************************************************)
Pulse == op.name = "pulse_output_low_nibble" /\ pc # "idle"

C26_PulseOpcode ==
    Pulse =>
        /\ Len(trace) <= 1
        /\ \A i \in 1..Len(trace) :
            /\ IsCommandWrite(trace[i])
            /\ trace[i].byte \div 16 = 15
            /\ trace[i].byte % 16 = op.a % 16
            /\ trace[i].byte = 240 + (op.a % 16)
        /\ ~IsDataWrite(last) /\ ~IsDataRead(last)
        /\ (pc = "done" /\ result.ok) <=> Len(trace) = 1
        /\ (pc = "done" /\ ~result.ok) => result = Err("Timeout", <<>>)

\* The mask 0x21 was pulsed with the opcode 0xf1.
C26_Witness ==
    /\ Pulse
    /\ op.a = 33
    /\ pc = "done"
    /\ trace = <<Access(COMMAND_REGISTER, "w", 241)>>

(***************************************************************************)
(* C27.  When a read or a write of the controller inside an operation of   *)
(* Keyboard or Mouse fails with the ControllerError e, the operation       *)
(* returns KeyboardError::ControllerError(e) or MouseError::ControllerError *)
(* (e), with e unchanged, and accesses no register afterwards.  The one    *)
(* exception is the read of the first identification byte in               *)
(* get_keyboard_type.                                                      *)
(***************************************************************************)
\* ControllerError(e) of either device, for the e a wait returns.
Wrapped(e) == [ok |-> FALSE, kind |-> "ControllerError", inner |-> e, v |-> <<>>]

FirstIdRead == op.name = "Keyboard::get_keyboard_type" /\ ip = 3

C27_State ==
    DeviceOp =>
        /\ (wait_result = "Timeout" /\ ~FirstIdRead) =>
            /\ pc = "done"
            /\ result = Wrapped("Timeout")
        /\ (pc = "done" /\ result.kind = "ControllerError") =>
            /\ wait_result = "Timeout"
            /\ result.inner = "Timeout"
            /\ Len(trace) = ip - 1

\* The failed wait made no transfer, and nothing follows it but the return
\* to the caller.
C27_Step ==
    /\ (DeviceOp' /\ wait_result' = "Timeout" /\ wait_result # "Timeout") =>
            (trace' = trace /\ last' = last /\ nstatus' = nstatus)
    /\ (DeviceOp /\ wait_result = "Timeout") => pc' = "idle"

C27_ErrorWrapping == []C27_State /\ [][C27_Step]_vars

\* The wait for the acknowledgment of a parameter byte of the mouse timed out.
C27_Witness ==
    /\ op.name = "Mouse::set_sample_rate"
    /\ ip = 5
    /\ pc = "done"
    /\ result = Wrapped("Timeout")
    /\ Len(trace) = 4

\* The wait before the opcode of a keyboard command timed out.
C27_WitnessKeyboard ==
    /\ op.name = "Keyboard::set_leds"
    /\ ip = 1
    /\ pc = "done"
    /\ result = Wrapped("Timeout")
    /\ trace = <<>>

(***************************************************************************)
(* C28.  As stated: set_typematic_rate_and_delay validates what it is      *)
(* called with before it transmits: an invalid value is rejected with the  *)
(* error that names it, and nothing is sent for a rejected call.  The      *)
(* function has one parameter: a value above 127 is no rate in 2..30 Hz,   *)
(* no delay in {250, 500, 750, 1000} ms, and no encoding of a rate and a   *)
(* delay either, since bit 7 is not part of one.                           *)
(***************************************************************************)
Typematic == op.name = "Keyboard::set_typematic_rate_and_delay" /\ pc # "idle"

C28_Validated ==
    (Typematic /\ op.a > 127) =>
        /\ pc = "done"
        /\ result.kind \in {"InvalidTypematicFrequency", "InvalidTypematicDelay"}
        /\ trace = <<>>
        /\ nstatus = 0

(***************************************************************************)
(* C29.  As stated: the parameter byte sent after the opcode 0xF3 is the   *)
(* encoding the function makes of the rate it is called with: bit 7 clear, *)
(* the rate scale in bits 0-4, which is 0 for 30 Hz and the maximum, 31,   *)
(* for 2 Hz, and the delay index in bits 5-6.  The one parameter of the    *)
(* function is read as the rate in Hz.                                     *)
(***************************************************************************)
C29_Encoded ==
    (Typematic /\ Len(trace) >= 3) =>
        /\ trace[1] = Access(DATA_REGISTER, "w", 243)
        /\ IsDataWrite(trace[3])
        /\ trace[3].byte < 128
        /\ op.a = 30 => trace[3].byte % 32 = 0
        /\ op.a = 2 => trace[3].byte % 32 = 31

(***************************************************************************)
(* C30.  get_scancode_set sends the opcode 0xF0 and then the parameter 0,  *)
(* each acknowledged on its own, then reads exactly one more byte and      *)
(* returns it as it is, Ok(byte), for every byte: the bytes that are       *)
(* handshake codes elsewhere (0xFA, 0xFE, 0x00, 0xFF) are returned like    *)
(* any other.                                                              *)
(***************************************************************************)
GetScancodeSet == op.name = "Keyboard::get_scancode_set" /\ pc # "idle"

C30_State ==
    GetScancodeSet =>
        /\ Len(trace) <= 5
        /\ Len(trace) >= 1 => trace[1] = Access(DATA_REGISTER, "w", 240)
        /\ Len(trace) >= 2 => IsDataRead(trace[2])
        /\ Len(trace) >= 3 =>
                trace[2] = AckRead /\ trace[3] = Access(DATA_REGISTER, "w", 0)
        /\ Len(trace) >= 4 => IsDataRead(trace[4])
        /\ Len(trace) = 5 =>
            /\ trace[4] = AckRead
            /\ IsDataRead(trace[5])
            /\ pc = "done"
            /\ result = Ok("u8", <<trace[5].byte>>)
        /\ (pc = "done" /\ result.ok) => Len(trace) = 5

\* The byte read is returned whatever it is.
C30_Step ==
    (GetScancodeSet /\ Len(trace) = 4 /\ Len(trace') = 5) =>
        (pc' = "done" /\ result'.ok /\ result'.v = <<last'.byte>>)

C30_SetNumberVerbatim == []C30_State /\ [][C30_Step]_vars

\* The keyboard answered with the resend byte where the set number is read.
C30_Witness ==
    /\ GetScancodeSet
    /\ Len(trace) = 5
    /\ trace[5].byte = 254
    /\ result = Ok("u8", <<254>>)

(***************************************************************************)
(* C31.  get_keyboard_type makes a keyboard type of a Timeout only at the  *)
(* read of the first identification byte.  A Timeout of the wait before    *)
(* the identify opcode is written, before its handshake byte is read, or   *)
(* before the second identification byte is read, returns                  *)
(* Err(KeyboardError::ControllerError(Timeout)); and a handshake error     *)
(* other than Resend (KeyDetectionError, InvalidResponse) is returned as   *)
(* the error it is, never as a keyboard type.                              *)
(***************************************************************************)
Identify == op.name = "Keyboard::get_keyboard_type" /\ pc = "done"

C31_TimeoutOnlyAtFirstId ==
    Identify =>
        /\ (wait_result = "Timeout" /\ Len(trace) \in {0, 1, 3}) =>
                result = [ok |-> FALSE, kind |-> "ControllerError",
                          inner |-> "Timeout", v |-> <<>>]
        /\ result.kind = "ATWithTranslation" =>
                (wait_result = "Timeout" /\ Len(trace) = 2 /\ ip = 3)
        /\ (wait_result # "Timeout" /\ Len(trace) = 2) =>
                result = (CASE trace[2].byte = 254 -> Ok("XT", <<>>)
                            [] trace[2].byte \in {0, 255} ->
                                    Err("KeyDetectionError", <<>>)
                            [] OTHER ->
                                    Err("InvalidResponse", <<trace[2].byte>>))
        /\ result.kind \in {"KeyDetectionError", "InvalidResponse"} =>
                (~result.ok /\ Len(trace) = 2)
        /\ Len(trace) = 3 => IsDataRead(trace[3])

\* The first identification byte came and the wait for the second timed out.
C31_Witness ==
    /\ Identify
    /\ wait_result = "Timeout"
    /\ Len(trace) = 3
    /\ trace[3].byte = 171
    /\ ip = 4
    /\ ~result.ok
    /\ result.inner = "Timeout"

\* The keyboard answered the identify opcode with a byte that is no handshake.
C31_WitnessHandshake ==
    /\ Identify
    /\ Len(trace) = 2
    /\ result = Err("InvalidResponse", <<85>>)

(***************************************************************************)
(* C32.  Mouse reset_and_self_test: when the read of the device id, which  *)
(* follows the result byte of the self-test, times out, the operation      *)
(* returns Err(MouseError::ControllerError(Timeout)) whatever the result   *)
(* byte was, 0xAA (passed) and 0xFC (failed) included: the outcome of the  *)
(* self-test is not returned.                                              *)
(***************************************************************************)
DeviceIdTimeout ==
    /\ op.name = "Mouse::reset_and_self_test"
    /\ pc = "done"
    /\ ip = 5
    /\ wait_result = "Timeout"

C32_OutcomeDiscarded ==
    /\ DeviceIdTimeout =>
        /\ Len(trace) = 4
        /\ IsDataRead(trace[4])
        /\ got = <<trace[4].byte>>
        /\ ~result.ok
        /\ result.kind = "ControllerError"
        /\ result.inner = "Timeout"
        /\ result.v = <<>>
    /\ (op.name = "Mouse::reset_and_self_test" /\ pc = "done"
            /\ Len(trace) = 4) => DeviceIdTimeout

\* The self-test passed and the wait for the device id timed out.
C32_Witness ==
    /\ DeviceIdTimeout
    /\ trace[4].byte = 170
    /\ result.kind = "ControllerError"

\* The self-test failed and the wait for the device id timed out.
C32_WitnessFailed ==
    /\ DeviceIdTimeout
    /\ trace[4].byte = 252
    /\ result.kind = "ControllerError"

(***************************************************************************)
(* C33.  The controller commands of two steps (write_internal_ram,         *)
(* write_output_port, write_keyboard_buffer, write_mouse_buffer,           *)
(* write_mouse) are not atomic: when the opcode has been written and the   *)
(* wait before the data write times out, the operation returns Timeout     *)
(* with the opcode written to the command register and no data byte        *)
(* written; nothing is rolled back and nothing is tried again.             *)
(***************************************************************************)
\* The opcode of the two-step command in progress.
TwoStepOpcode ==
    CASE op.name = "write_internal_ram" -> 96 + (op.a % 32)
      [] op.name = "write_output_port" -> 209
      [] op.name = "write_keyboard_buffer" -> 210
      [] op.name = "write_mouse_buffer" -> 211
      [] op.name = "write_mouse" -> 212
      [] OTHER -> None

\* The wait before the data write of a two-step command has timed out.
DataWaitTimeout ==
    /\ TwoStepOpcode # None
    /\ ip = 2
    /\ wait_result = "Timeout"

C33_State ==
    /\ DataWaitTimeout =>
        /\ pc = "done"
        /\ result = Err("Timeout", <<>>)
        /\ trace = <<Access(COMMAND_REGISTER, "w", TwoStepOpcode)>>
        /\ timeout > 0 => IsStatusRead(last) /\ ~InputFullClear(last.byte)
    /\ (TwoStepOpcode # None /\ pc # "idle" /\ Len(trace) >= 1) =>
        /\ trace[1] = Access(COMMAND_REGISTER, "w", TwoStepOpcode)
        /\ Len(trace) <= 2
        /\ Len(trace) = 2 => (IsDataWrite(trace[2]) /\ pc = "done" /\ result.ok)

\* The timeout writes nothing, and the caller gets the error next.
C33_Step ==
    /\ (DataWaitTimeout' /\ ~DataWaitTimeout) =>
            (trace' = trace /\ last' = last /\ nstatus' = nstatus)
    /\ DataWaitTimeout => pc' = "idle"

C33_NotAtomic == []C33_State /\ [][C33_Step]_vars

\* write_mouse wrote 0xD4 and gave up waiting to write the byte for the mouse.
C33_Witness ==
    /\ DataWaitTimeout
    /\ op.name = "write_mouse"
    /\ op.a = 255
    /\ trace = <<Access(COMMAND_REGISTER, "w", 212)>>
    /\ result = Err("Timeout", <<>>)

\* write_internal_ram(33, 100) wrote 0x61 and no data.
C33_WitnessRam ==
    /\ DataWaitTimeout
    /\ op.name = "write_internal_ram"
    /\ op.a = 33
    /\ trace = <<Access(COMMAND_REGISTER, "w", 97)>>

(***************************************************************************)
(* C34.  On a Controller built by with_timeout(0), every operation that    *)
(* needs a register transfer returns Timeout (wrapped in ControllerError   *)
(* for an operation of Keyboard or Mouse) without accessing any register,  *)
(* the status register included; read_status alone touches the hardware.   *)
(***************************************************************************)
ZeroTimeout == timeout = 0 /\ pc # "idle"

C34_State ==
    ZeroTimeout =>
        IF op.name = "read_status"
        THEN /\ pc = "done"
             /\ nstatus = 1
             /\ IsStatusRead(last)
             /\ result.ok
        ELSE /\ nstatus = 0
             /\ polls = 0
             /\ trace = <<>>
             /\ last = NoAccess
             /\ pc \in {"wait", "done"}
             /\ pc = "wait" => ip = 1
             /\ (pc = "done" /\ ~RejectedSetter) =>
                    /\ wait_result = "Timeout"
                    /\ ~result.ok
                    /\ result.v = <<>>
                    /\ IF op.dev = "controller"
                       THEN result.kind = "Timeout" /\ result.inner = ""
                       ELSE result.kind = "ControllerError"
                                /\ result.inner = "Timeout"

\* The first wait of an operation gives up at once.
C34_Step ==
    (ZeroTimeout /\ pc = "wait") =>
        (pc' = "done" /\ wait_result' = "Timeout" /\ nstatus' = 0
            /\ last' = NoAccess)

C34_ZeroTimeout == []C34_State /\ [][C34_Step]_vars

\* get_status_packet on a controller with timeout 0.
C34_Witness ==
    /\ ZeroTimeout
    /\ op.name = "Mouse::get_status_packet"
    /\ pc = "done"
    /\ result.inner = "Timeout"
    /\ nstatus = 0

\* read_status on a controller with timeout 0 reads the status register.
C34_WitnessStatus ==
    /\ ZeroTimeout
    /\ op.name = "read_status"
    /\ last = Access(COMMAND_REGISTER, "r", 3)

=============================================================================
